---- MODULE Spec2Model ----
(***************************************************************************)
(* Model of the askexperts-coder TypeScript indexing engine:               *)
(*   - stable symbol ids (buildStableId / resolveStableId),                *)
(*   - access paths (pathsTo) and their ranking (rankPaths),               *)
(*   - related types (related) with the engine's relatedCallStack field,   *)
(*   - the export catalog (collectExports) and makeImportStatement,        *)
(*   - the symbol task pool of the generate command.                       *)
(* SpecId checks the ids, SpecEqual equalStableId, SpecEngine one engine   *)
(* instance serving pathsTo and related calls, SpecRank the ranking and    *)
(* SpecSort its sort order, SpecExports the catalog, SpecImport the module *)
(* specifier of makeImportStatement, SpecGenerate the generate command and *)
(* SpecCli the command with every --threads value; the variables a         *)
(* specification does not use stay at their initial value.                 *)
(***************************************************************************)
EXTENDS Integers, Sequences, FiniteSets, TLC

VARIABLES
    project,    \* stable ids: the declarations of the program snapshot
    built,      \* stable ids: the ids buildStableId returned (decl, id)
    resolved,   \* stable ids: the last resolveStableId call (id, from, out)
    pc,         \* engine: "idle", or the place inside the running call
    call,       \* engine: the running call [api, target], or None
    rootIdx,    \* pathsTo: index of the export root being handled
    queue,      \* pathsTo: the BFS queue of the current root
    seen,       \* pathsTo: the visited keys of the current root
    paths,      \* pathsTo: the paths found so far
    ret,        \* engine: what the last finished call returned, or None
    relatedCallStack, \* related: the instance field of that name
    stack,      \* typeTargets: the pending visit() calls, next one first
    visitedTypes, \* typeTargets: the local of that name
    out,        \* typeTargets: the local of that name
    addSet,     \* related: the local of that name, in insertion order
    fresh,      \* history: what the first related() on each declaration returned
    ranked,     \* ranking: the pathsToRanked call (a, b, aFirst, opts, out), or None
    relocated,  \* stable ids: the last resolveStableId of an id whose file moved
    eq,         \* stable ids: the equalStableId call (a, b, done, out), or None
    modules,    \* exports: what the checker answers for each source file
    catalog,    \* exports: the field allRoots, or None before the constructor ran
    imported,   \* exports: the last makeImportStatement call, or None
    symbolInfos,      \* generate: the symbols of the workspace, in processing order
    options,          \* generate: the command options (threads, continue)
    docsFiles,        \* generate: per source file, the lines of its docs file
    fileCache,        \* generate: the shared cache (currentFile, existingDocSymbols)
    activePromises,   \* generate: the local of that name (symbol index, promise state)
    nextSymbolIndex,  \* generate: the local of that name
    gpc,              \* generate: where processWorkspace stands
    sent              \* history: the symbols handed to indexer.processSymbol

idVars == <<project, built, resolved>>

pathVars == <<rootIdx, queue, seen, paths>>

relVars == <<relatedCallStack, stack, visitedTypes, out, addSet, fresh>>

ctlVars == <<pc, call, ret>>

expVars == <<modules, catalog, imported>>

genVars == <<symbolInfos, options, docsFiles, fileCache, activePromises,
             nextSymbolIndex, gpc, sent>>

extVars == <<relocated, eq, expVars, genVars>>

vars == <<project, built, resolved, pc, call, ret, rootIdx, queue, seen, paths,
          relatedCallStack, stack, visitedTypes, out, addSet, fresh, ranked,
          relocated, eq, modules, catalog, imported, symbolInfos, options,
          docsFiles, fileCache, activePromises, nextSymbolIndex, gpc, sent>>

None == [none |-> TRUE]

(***************************************************************************)
(* PART A - STABLE IDENTITY                                                *)
(***************************************************************************)

\* Bound: the largest number of declarations of a program snapshot.
MaxDecls == 3

\* Header texts are token sequences; token 0 stands for a piece of
\* formatting (extra whitespace or a comment) that normalisation removes.
\* Tokens compare like the characters of the text they stand for.
HdrFNumber == <<1, 0, 5>>       \* "f(a:  number)" with extra whitespace
HdrFString == <<1, 6>>          \* "f(a: string)"
HdrG       == <<2>>             \* "g()"
HdrClassC  == <<3, 1>>          \* "class C"
HdrM0      == <<4>>             \* "m()"
HdrM1      == <<4, 0, 1>>       \* "m(x)"
HdrCtor    == <<3, 2>>          \* "constructor()"
HdrIfaceI  == <<3, 3>>          \* "interface I"
HdrMSig    == <<4, 7>>          \* "m(): void"
HdrMSigWs  == <<4, 0, 7>>       \* "m():  void", the same signature again
HdrPSig    == <<5, 7>>          \* "p: T"
HdrVarA    == <<6, 1>>          \* "const A ="
HdrVarB    == <<6, 2>>          \* "const B ="
HdrPropX   == <<7, 1>>          \* "x: 1"

\* The declarations a snapshot is drawn from.  pos is the start offset
\* (unique, source order inside a file), parent the pos of the enclosing
\* declaration (0: the source file itself), body the text of the body or
\* initializer that follows the header (<<>>: none).
Decl(pos, file, kind, name, parent, header, body) ==
    [pos |-> pos, file |-> file, kind |-> kind, name |-> name,
     parent |-> parent, header |-> header, body |-> body]

DeclUniverse ==
    { Decl(1,  "a.ts", "FunctionDeclaration",  "f", 0, HdrFNumber, <<8>>),
      Decl(2,  "a.ts", "FunctionDeclaration",  "f", 0, HdrFString, <<9>>),
      Decl(3,  "a.ts", "FunctionDeclaration",  "g", 0, HdrG,       <<8>>),
      Decl(4,  "a.ts", "ClassDeclaration",     "C", 0, HdrClassC,  <<8>>),
      Decl(5,  "a.ts", "MethodDeclaration",    "m", 4, HdrM1,      <<8>>),
      Decl(6,  "a.ts", "MethodDeclaration",    "m", 4, HdrM0,      <<9>>),
      Decl(7,  "a.ts", "Constructor",          "",  4, HdrCtor,    <<8>>),
      Decl(8,  "a.ts", "InterfaceDeclaration", "I", 0, HdrIfaceI,  <<8>>),
      Decl(9,  "a.ts", "MethodSignature",      "m", 8, HdrMSig,    <<>>),
      Decl(10, "a.ts", "PropertySignature",    "p", 8, HdrPSig,    <<>>),
      Decl(11, "a.ts", "VariableDeclaration",  "A", 0, HdrVarA,    <<8>>),
      Decl(12, "a.ts", "PropertyAssignment",   "x", 11, HdrPropX,  <<>>),
      Decl(13, "a.ts", "VariableDeclaration",  "B", 0, HdrVarB,    <<8>>),
      Decl(14, "a.ts", "PropertyAssignment",   "x", 13, HdrPropX,  <<>>),
      Decl(15, "b.ts", "FunctionDeclaration",  "f", 0, HdrFNumber, <<9>>),
      Decl(16, "b.ts", "FunctionDeclaration",  "f", 0, HdrFString, <<8>>),
      Decl(17, "a.ts", "MethodSignature",      "m", 8, HdrMSigWs,  <<>>) }

\* The source files of the program, in program order.
SourceFiles == <<"a.ts", "b.ts">>

\* A snapshot is closed under parents: a member comes with its container.
WellFormed(P) ==
    /\ P # {}
    /\ Cardinality(P) <= MaxDecls
    /\ \A d \in P : d.parent # 0 => \E c \in P : c.pos = d.parent /\ c.file = d.file

Projects == { P \in SUBSET DeclUniverse : WellFormed(P) }

ParentOf(P, d) == CHOOSE c \in P : c.pos = d.parent /\ c.file = d.file

\* The syntax kind of decl.parent.
ParentKind(P, d) ==
    IF d.parent = 0 THEN "SourceFile"
    ELSE LET c == ParentOf(P, d) IN
         IF c.kind = "VariableDeclaration" THEN "ObjectLiteralExpression"
         ELSE c.kind

\* Lexicographic comparison of token sequences (localeCompare < 0).
RECURSIVE LexLess(_, _)
LexLess(a, b) ==
    IF b = <<>> THEN FALSE
    ELSE IF a = <<>> THEN TRUE
    ELSE IF Head(a) # Head(b) THEN Head(a) < Head(b)
    ELSE LexLess(Tail(a), Tail(b))

normalizeHeaderText(txt) == SelectSeq(txt, LAMBDA t : t # 0)

\* sha256 of the normalized text, modelled as an injective tag on it.
hashHeader(txt) == [sha |-> normalizeHeaderText(txt)]

\* Kinds whose header is sliced before the body or initializer; every other
\* declaration falls back to its whole text.
SlicedKinds ==
    {"ClassDeclaration", "InterfaceDeclaration", "EnumDeclaration",
     "TypeAliasDeclaration", "FunctionDeclaration", "MethodDeclaration",
     "GetAccessor", "SetAccessor", "Constructor", "VariableDeclaration"}

getDeclarationHeader(d) ==
    IF d.kind \in SlicedKinds THEN d.header ELSE d.header \o d.body

NormHeader(d) == normalizeHeaderText(getDeclarationHeader(d))

RECURSIVE containerChainOf(_, _)
containerChainOf(P, d) ==
    IF d.parent = 0 THEN <<>>
    ELSE LET c == ParentOf(P, d) IN
         IF c.kind \in {"ClassDeclaration", "InterfaceDeclaration",
                        "ModuleDeclaration", "EnumDeclaration"}
         THEN Append(containerChainOf(P, c), <<c.kind, c.name>>)
         ELSE containerChainOf(P, c)

declName(d) ==
    IF d.kind = "Constructor" THEN "constructor"
    ELSE IF d.kind = "CallSignature" THEN "__call"
    ELSE IF d.kind = "ConstructSignature" THEN "__new"
    ELSE d.name

\* Array.prototype.sort with a comparator on normalized headers: stable, so
\* declarations with equal headers keep their source order.
Before(a, b) ==
    \/ LexLess(NormHeader(a), NormHeader(b))
    \/ NormHeader(a) = NormHeader(b) /\ a.pos < b.pos

RECURSIVE SortByHeader(_)
SortByHeader(S) ==
    IF S = {} THEN <<>>
    ELSE LET m == CHOOSE x \in S : \A y \in S \ {x} : Before(x, y)
         IN <<m>> \o SortByHeader(S \ {m})

\* findIndex: 0-based index of the first element of keys equal to key, -1 if
\* there is none.
RECURSIVE FindIndexFrom(_, _, _)
FindIndexFrom(keys, key, i) ==
    IF i > Len(keys) THEN -1
    ELSE IF keys[i] = key THEN i - 1
    ELSE FindIndexFrom(keys, key, i + 1)

OverloadKinds ==
    {"FunctionDeclaration", "MethodDeclaration", "MethodSignature",
     "Constructor", "CallSignature", "ConstructSignature"}

\* Mutant: the sibling filters forget to compare names.
Siblings_AnyName(P, d) ==
    { s \in P : s.file = d.file /\ s.parent = d.parent /\ s.kind = d.kind }

\* The sibling declarations buildStableId collects from decl.parent.
Siblings(P, d) ==
    LET pk   == ParentKind(P, d)
        same == { s \in P : s.file = d.file /\ s.parent = d.parent }
        tn   == declName(d)
    IN  IF pk = "SourceFile"
        THEN { s \in same : s.kind = "FunctionDeclaration" /\ s.name = tn }
        ELSE IF pk \in {"ClassDeclaration", "ClassExpression"}
        THEN { s \in same : \/ s.kind = "MethodDeclaration" /\ s.name = tn
                            \/ s.kind = "Constructor" /\ tn = "constructor" }
        ELSE IF pk \in {"InterfaceDeclaration", "TypeLiteral"}
        THEN { s \in same : \/ s.kind = "MethodSignature" /\ s.name = tn
                            \/ s.kind = "CallSignature" /\ tn = "__call"
                            \/ s.kind = "ConstructSignature" /\ tn = "__new" }
        ELSE {}

\* Mutant: the overload index is never computed.
OverloadIndexOf_Zero(P, d) == 0

OverloadIndexOf(P, d) ==
    IF d.kind \notin OverloadKinds THEN 0
    ELSE LET sibs == Siblings(P, d) IN
         IF Cardinality(sibs) <= 1 THEN 0
         ELSE LET sorted == SortByHeader(sibs)
                  hdrs   == [i \in 1..Len(sorted) |-> NormHeader(sorted[i])]
                  starts == [i \in 1..Len(sorted) |-> sorted[i].pos]
                  byHdr  == FindIndexFrom(hdrs, NormHeader(d), 1)
              IN IF byHdr # -1 THEN byHdr
                 ELSE FindIndexFrom(starts, d.pos, 1)

\* Mutant: the content hash leaves out the file.
createSymbolIdHash_NoFile(id) ==
    [sha |-> <<id.kind, id.name, id.headerHash, id.overloadIndex,
               id.containerChain>>]

\* sha256 over "file:kind:name:headerHash:overloadIndex[:kind:name]*",
\* modelled as an injective tag on the hashed fields.
createSymbolIdHash(id) ==
    [sha |-> <<id.file, id.kind, id.name, id.headerHash, id.overloadIndex,
               id.containerChain>>]

StableIdFields(P, d) ==
    [file           |-> d.file,
     kind           |-> d.kind,
     name           |-> declName(d),
     containerChain |-> containerChainOf(P, d),
     headerHash     |-> hashHeader(getDeclarationHeader(d)),
     overloadIndex  |-> OverloadIndexOf(P, d)]

\* Without a listExports callback no export hints are attached (the field
\* stays undefined, written {}).
buildStableId(P, d) ==
    LET f == StableIdFields(P, d) IN
    [file |-> f.file, kind |-> f.kind, name |-> f.name,
     containerChain |-> f.containerChain, headerHash |-> f.headerHash,
     exportHints |-> {},
     overloadIndex |-> f.overloadIndex, hash |-> createSymbolIdHash(f)]

\* The checker symbol of a declaration: overloads and merged declarations of
\* one name in one container share it.
SymbolOf(d) == <<d.file, d.parent, declName(d)>>

\* The optional export hints: the catalog records whose resolved symbol is
\* the declaration's symbol; an empty list is not stored.
exportHintsOf(listExports, d) ==
    { [moduleFile |-> e.moduleFile, exportName |-> e.exportName] :
        e \in { x \in listExports : x.symbol = SymbolOf(d) } }

\* buildStableId with a listExports callback.
buildStableIdListed(P, d, listExports) ==
    [buildStableId(P, d) EXCEPT !.exportHints = exportHintsOf(listExports, d)]

\* An id without a content hash (hash: "").
NoHash == [sha |-> <<>>]

\* Same identity: by hash when both ids carry one, else field by field.
equalStableId(a, b) ==
    IF a.hash # NoHash /\ b.hash # NoHash THEN a.hash = b.hash
    ELSE /\ a.kind = b.kind
         /\ a.name = b.name
         /\ a.containerChain = b.containerChain
         /\ a.headerHash = b.headerHash
         /\ a.overloadIndex = b.overloadIndex
         /\ a.file = b.file

\* Mutant: the in-file search forgets the interface member signatures.
InFileKinds_NoSignatures ==
    {"ClassDeclaration", "InterfaceDeclaration", "EnumDeclaration",
     "TypeAliasDeclaration", "FunctionDeclaration", "MethodDeclaration",
     "Constructor", "VariableDeclaration", "PropertyAssignment"}

\* The node kinds the in-file search hands to considerDecl.
InFileKinds ==
    {"ClassDeclaration", "InterfaceDeclaration", "EnumDeclaration",
     "TypeAliasDeclaration", "FunctionDeclaration", "MethodDeclaration",
     "MethodSignature", "Constructor", "CallSignature", "ConstructSignature",
     "GetAccessor", "SetAccessor", "PropertyDeclaration", "PropertySignature",
     "IndexSignature", "PropertyAssignment", "ShorthandPropertyAssignment",
     "EnumMember", "VariableDeclaration", "ModuleDeclaration"}

\* The node kinds the whole-project fallback hands to considerDecl.
FallbackKinds ==
    {"ClassDeclaration", "InterfaceDeclaration", "EnumDeclaration",
     "TypeAliasDeclaration", "FunctionDeclaration", "MethodDeclaration",
     "Constructor", "CallSignature", "ConstructSignature",
     "GetAccessor", "SetAccessor", "PropertyDeclaration",
     "IndexSignature", "PropertyAssignment", "ShorthandPropertyAssignment",
     "EnumMember", "VariableDeclaration", "ModuleDeclaration"}

considerDecl(P, id, d) ==
    /\ d.kind = id.kind
    /\ declName(d) = id.name
    /\ containerChainOf(P, d) = id.containerChain
    /\ hashHeader(getDeclarationHeader(d)) = id.headerHash

InFileCandidates(P, id) ==
    { d \in P : d.file = id.file /\ d.kind \in InFileKinds /\ considerDecl(P, id, d) }

FileCandidates(P, id, file) ==
    { d \in P : d.file = file /\ d.kind \in FallbackKinds /\ considerDecl(P, id, d) }

\* The fallback scans the source files in order and stops at the first file
\* that yields a candidate.
RECURSIVE FallbackCandidates(_, _, _)
FallbackCandidates(P, id, i) ==
    IF i > Len(SourceFiles) THEN {}
    ELSE LET c == FileCandidates(P, id, SourceFiles[i]) IN
         IF c # {} THEN c ELSE FallbackCandidates(P, id, i + 1)

Candidates(P, id) ==
    LET inFile == InFileCandidates(P, id) IN
    IF inFile # {} THEN inFile ELSE FallbackCandidates(P, id, 1)

resolveStableId(P, id) ==
    LET cands == Candidates(P, id) IN
    IF cands = {} THEN None
    ELSE LET sorted == SortByHeader(cands) IN
         IF Cardinality(cands) > 1
         THEN IF id.overloadIndex + 1 <= Len(sorted)
              THEN sorted[id.overloadIndex + 1] ELSE sorted[1]
         ELSE sorted[1]


(***************************************************************************)
(* PART B - ACCESS PATHS                                                   *)
(*                                                                         *)
(* The semantic snapshot the engine queries (the checker's answers):       *)
(*   index.ts                                                              *)
(*     export function f() {}                                              *)
(*     export class Client { static make(); static shared: Client;         *)
(*                           users: Users; _client: Http }                 *)
(*     export const api = { users: { create() {} }, ping() {} }            *)
(*     export type Node = { next: Node; value: Leaf }                      *)
(*     export const head: Node                                             *)
(*     export namespace NS { export import Self = NS; export function g() }*)
(*     export const mk = Client.make                                       *)
(*     function hidden() {}                                                *)
(*   lib/users.ts   class Users { create() }   class Http { request() }    *)
(*                  interface Leaf { tag: string }                        *)
(***************************************************************************)

\* Bound: the longest member chain the BFS may build (a guard against an
\* unbounded search, never reached by the keyed search).
MaxSteps == 6

Type(sym, file, flags, props, construct, callable) ==
    [sym |-> sym, file |-> file, flags |-> flags, props |-> props,
     construct |-> construct, callable |-> callable]

\* ts.Type values: symbol name and file (the empty name: no symbol), type
\* flags, getPropertiesOfType, the instance type of the first construct
\* signature ("": none), and whether there are call signatures.
TypeInfo ==
    [fn           |-> Type("__function", "index.ts", "Object", <<>>, "", TRUE),
     fnF          |-> Type("f", "index.ts", "Object", <<>>, "", TRUE),
     ClientStatic |-> Type("Client", "index.ts", "Object",
                           <<"Client.make", "Client.shared">>, "Client", FALSE),
     Client       |-> Type("Client", "index.ts", "Object",
                           <<"Client.users", "Client._client">>, "", FALSE),
     Users        |-> Type("Users", "lib/users.ts", "Object",
                           <<"Users.create">>, "", FALSE),
     Http         |-> Type("Http", "lib/users.ts", "Object",
                           <<"Http.request">>, "", FALSE),
     api          |-> Type("__object", "index.ts", "Object",
                           <<"api.users", "api.ping">>, "", FALSE),
     apiUsers     |-> Type("__object", "index.ts", "Object",
                           <<"apiUsers.create">>, "", FALSE),
     Node         |-> Type("__type", "index.ts", "Object",
                           <<"Node.next", "Node.value">>, "", FALSE),
     Leaf         |-> Type("Leaf", "lib/users.ts", "Object",
                           <<"Leaf.tag">>, "", FALSE),
     string       |-> Type("", "", "String", <<>>, "", FALSE),
     NS           |-> Type("NS", "index.ts", "Object",
                           <<"NS.Self", "NS.g">>, "", FALSE),
     any          |-> Type("", "", "Any", <<>>, "", FALSE)]

Member(name, decl, type, static) ==
    [name |-> name, decl |-> decl, type |-> type, static |-> static]

\* Property symbols: name, first declaration of the alias-resolved symbol,
\* type at its declaration, and the static modifier.
MemberInfo ==
    [x \in {"Client.make", "Client.shared", "Client.users", "Client._client",
            "Users.create", "Http.request", "api.users", "api.ping",
            "apiUsers.create", "Node.next", "Node.value", "Leaf.tag",
            "NS.Self", "NS.g"} |->
       CASE x = "Client.make"     -> Member("make", "D_make", "fn", TRUE)
         [] x = "Client.shared"   -> Member("shared", "D_shared", "Client", TRUE)
         [] x = "Client.users"    -> Member("users", "D_users", "Users", FALSE)
         [] x = "Client._client"  -> Member("_client", "D_client", "Http", FALSE)
         [] x = "Users.create"    -> Member("create", "D_create", "fn", FALSE)
         [] x = "Http.request"    -> Member("request", "D_request", "fn", FALSE)
         [] x = "api.users"       -> Member("users", "D_apiUsers", "apiUsers", FALSE)
         [] x = "api.ping"        -> Member("ping", "D_ping", "fn", FALSE)
         [] x = "apiUsers.create" -> Member("create", "D_apiCreate", "fn", FALSE)
         [] x = "Node.next"       -> Member("next", "D_next", "Node", FALSE)
         [] x = "Node.value"      -> Member("value", "D_value", "Leaf", FALSE)
         [] x = "Leaf.tag"        -> Member("tag", "D_tag", "string", FALSE)
         [] x = "NS.Self"         -> Member("Self", "D_NS", "NS", FALSE)
         [] x = "NS.g"            -> Member("g", "D_g", "fn", FALSE)]

Export(exportName, importKind, moduleFile, isTypeOnly, decl, type, instance, aliasOf) ==
    [exportName |-> exportName, importKind |-> importKind,
     moduleFile |-> moduleFile, isTypeOnly |-> isTypeOnly, decl |-> decl,
     type |-> type, instance |-> instance, aliasOf |-> aliasOf]

\* The export catalog (this.allRoots): for each record the first declaration
\* of the alias-resolved export symbol, its type at its declaration, for a
\* class its declared (instance) type, and what a variable's initializer
\* resolves to.
allRoots ==
    << Export("f",      "named", "index.ts", FALSE, "D_f",      "fnF",          "",       ""),
       Export("Client", "named", "index.ts", FALSE, "D_Client", "ClientStatic", "Client", ""),
       Export("api",    "named", "index.ts", FALSE, "D_api",    "api",          "",       ""),
       Export("Node",   "named", "index.ts", TRUE,  "D_Node",   "any",          "",       ""),
       Export("head",   "named", "index.ts", FALSE, "D_head",   "Node",         "",       ""),
       Export("NS",     "named", "index.ts", FALSE, "D_NS",     "NS",           "",       ""),
       Export("mk",     "named", "index.ts", FALSE, "D_mk",     "fn",           "",       "D_make") >>

valueRoots == SelectSeq(allRoots, LAMBDA e : ~e.isTypeOnly)

Target(name, file, isValue) == [name |-> name, file |-> file, isValue |-> isValue]

\* The declarations pathsTo is asked about: symbol name, source file, and
\* symbolHasRuntimeValue of the resolved symbol.
TargetInfo ==
    [D_f         |-> Target("f", "index.ts", TRUE),
     D_Client    |-> Target("Client", "index.ts", TRUE),
     D_make      |-> Target("make", "index.ts", TRUE),
     D_create    |-> Target("create", "lib/users.ts", TRUE),
     D_apiCreate |-> Target("create", "index.ts", TRUE),
     D_Node      |-> Target("Node", "index.ts", FALSE),
     D_next      |-> Target("next", "index.ts", TRUE),
     D_NS        |-> Target("NS", "index.ts", TRUE),
     D_hidden    |-> Target("hidden", "index.ts", TRUE)]

Targets == DOMAIN TargetInfo

\* Mutant: every target counts as a runtime value.
symbolHasRuntimeValue_Always(t) == TRUE

\* symbolHasRuntimeValue of the resolved target symbol.
symbolHasRuntimeValue(t) == TargetInfo[t].isValue

\* sameSymbol: identity of the first declarations.
\* Mutant: no two symbols are ever the same.
sameSymbol_Never(a, b) == FALSE

sameSymbol(a, b) == a # "" /\ b # "" /\ a = b

\* Mutant: the BFS forgets what it has seen.
seenHas_Never(s, key) == FALSE

\* seen.has(key) of the member BFS.
seenHas(s, key) == key \in s

typeKey(t, requiresNew) ==
    LET ty == TypeInfo[t]
        id == IF ty.sym # "" THEN ty.sym \o "@" \o ty.file
              ELSE "#anon(" \o ty.flags \o ")"
    IN (IF requiresNew THEN "new:" ELSE "val:") \o id

RECURSIVE Chain(_)
Chain(steps) ==
    IF steps = <<>> THEN ""
    ELSE (IF Head(steps).kind = "call"
          THEN "." \o Head(steps).member \o "(...)"
          ELSE "." \o Head(steps).member) \o Chain(Tail(steps))

toAccessPath(root, steps, requiresNew) ==
    LET rootName   == IF root.exportName = "default" THEN "<default>"
                      ELSE root.exportName
        rootSuffix == IF steps # <<>> THEN ""
                      ELSE IF TypeInfo[root.type].callable THEN "(...)"
                      ELSE "[...]"
        pretty     == (IF requiresNew THEN "new " \o rootName \o "(...)"
                       ELSE rootName) \o rootSuffix \o Chain(steps)
    IN [root |-> root, steps |-> steps, requiresNew |-> requiresNew,
        pretty |-> pretty]

\* The extra root for an export of the target's own file with the target's
\* name, when that export has a runtime value.
DirectRoot(t) ==
    LET hits == SelectSeq(allRoots, LAMBDA e :
                   e.moduleFile = TargetInfo[t].file
                   /\ e.exportName = TargetInfo[t].name)
    IN IF hits # <<>> /\ ~hits[1].isTypeOnly
       THEN << [hits[1] EXCEPT !.importKind = "named"] >>
       ELSE <<>>

RootsFor(t) ==
    (IF symbolHasRuntimeValue(t) THEN valueRoots ELSE allRoots) \o DirectRoot(t)

\* The start nodes of the member BFS of one root.
startNodes(root) ==
    IF root.instance # ""
    THEN << [type |-> root.type, steps |-> <<>>, requiresNew |-> FALSE],
            [type |-> root.instance, steps |-> <<>>, requiresNew |-> TRUE] >>
    ELSE << [type |-> root.type, steps |-> <<>>, requiresNew |-> FALSE] >>

StepKind(m) == IF m.static THEN "static" ELSE "instance"

AfterCallable_Enqueue(node, m, q) ==
    Append(q, [type |-> m.type,
               steps |-> Append(node.steps, [kind |-> "call", member |-> m.name]),
               requiresNew |-> node.requiresNew])

\* The queue after a callable member was matched: the loop continues without
\* enqueueing the member's type.
AfterCallable(node, m, q) == q

\* The loop over the properties of one dequeued node: <<paths, queue>> after
\* the properties from index i on have been handled.
RECURSIVE VisitProps(_, _, _, _, _, _)
VisitProps(root, t, node, i, ps, q) ==
    LET props == TypeInfo[node.type].props IN
    IF i > Len(props) THEN <<ps, q>>
    ELSE LET m == MemberInfo[props[i]] IN
         IF TypeInfo[m.type].callable
         THEN VisitProps(root, t, node, i + 1,
                  IF sameSymbol(m.decl, t)
                  THEN Append(ps, toAccessPath(root,
                           Append(node.steps, [kind |-> "call", member |-> m.name]),
                           node.requiresNew))
                  ELSE ps,
                  AfterCallable(node, m, q))
         ELSE LET step == [kind |-> StepKind(m), member |-> m.name] IN
              VisitProps(root, t, node, i + 1,
                  IF sameSymbol(m.decl, t)
                  THEN Append(ps, toAccessPath(root, Append(node.steps, step),
                                               node.requiresNew))
                  ELSE ps,
                  Append(q, [type |-> m.type, steps |-> Append(node.steps, step),
                             requiresNew |-> node.requiresNew]))

\* The construct-signature step: the instance type is queued with the same
\* steps and requiresNew set.
WithInstance(node, q) ==
    IF TypeInfo[node.type].construct # ""
    THEN Append(q, [type |-> TypeInfo[node.type].construct,
                    steps |-> node.steps, requiresNew |-> TRUE])
    ELSE q

\* The key pathsTo passes to dedupe.
PathKey(p) == p.root.moduleFile \o "::" \o p.root.exportName \o "::" \o p.pretty

\* dedupe(arr, PathKey): the items of arr from index i on whose key is not in
\* seenKeys, the first of each key only.
RECURSIVE dedupe(_, _, _)
dedupe(arr, i, seenKeys) ==
    IF i > Len(arr) THEN <<>>
    ELSE LET k == PathKey(arr[i]) IN
         IF k \in seenKeys THEN dedupe(arr, i + 1, seenKeys)
         ELSE <<arr[i]>> \o dedupe(arr, i + 1, seenKeys \cup {k})

\* pathsTo(target): entry, up to the loop over the roots.
PathsToEnter ==
    /\ pc = "idle"
    /\ \E t \in Targets :
          call' = [api |-> "pathsTo", target |-> t, roots |-> RootsFor(t)]
    /\ pc' = "roots"
    /\ rootIdx' = 1
    /\ queue' = <<>>
    /\ seen' = {}
    /\ paths' = <<>>
    /\ ret' = None
    /\ UNCHANGED <<idVars, relVars, ranked, extVars>>

\* One iteration of the loop over the roots, up to the BFS loop.
PathsToRoot ==
    /\ pc = "roots"
    /\ rootIdx <= Len(call.roots)
    /\ LET root == call.roots[rootIdx]
           t    == call.target
       IN  \/ /\ sameSymbol(root.decl, t)                     \* direct hit
              /\ paths' = Append(paths, toAccessPath(root, <<>>, FALSE))
              /\ rootIdx' = rootIdx + 1
              /\ UNCHANGED <<pc, queue, seen>>
           \/ /\ ~sameSymbol(root.decl, t)
              /\ ~symbolHasRuntimeValue(t)                    \* type-only target
              /\ rootIdx' = rootIdx + 1
              /\ UNCHANGED <<pc, queue, seen, paths>>
           \/ /\ ~sameSymbol(root.decl, t)
              /\ symbolHasRuntimeValue(t)
              /\ sameSymbol(root.aliasOf, t)                  \* alias shortcut
              /\ paths' = Append(paths, toAccessPath(root, <<>>, FALSE))
              /\ rootIdx' = rootIdx + 1
              /\ UNCHANGED <<pc, queue, seen>>
           \/ /\ ~sameSymbol(root.decl, t)
              /\ symbolHasRuntimeValue(t)
              /\ ~sameSymbol(root.aliasOf, t)                 \* member BFS
              /\ queue' = startNodes(root)
              /\ seen' = {}
              /\ pc' = "bfs"
              /\ UNCHANGED <<rootIdx, paths>>
    /\ UNCHANGED <<call, ret, idVars, relVars, ranked, extVars>>

\* One iteration of the BFS loop: dequeue a node and, unless its key was
\* seen, handle its properties and its construct signature.
PathsToBfs ==
    /\ pc = "bfs"
    /\ queue # <<>>
    /\ LET node == Head(queue)
           key  == typeKey(node.type, node.requiresNew)
       IN  IF seenHas(seen, key)
           THEN /\ queue' = Tail(queue)
                /\ UNCHANGED <<seen, paths>>
           ELSE /\ Len(node.steps) < MaxSteps
                /\ LET r == VisitProps(call.roots[rootIdx], call.target, node,
                                       1, paths, Tail(queue))
                   IN  /\ paths' = r[1]
                       /\ queue' = WithInstance(node, r[2])
                /\ seen' = seen \cup {key}
    /\ UNCHANGED <<pc, call, rootIdx, ret, idVars, relVars, ranked, extVars>>

\* The BFS queue is empty: on to the next root.
PathsToBfsDone ==
    /\ pc = "bfs"
    /\ queue = <<>>
    /\ pc' = "roots"
    /\ rootIdx' = rootIdx + 1
    /\ UNCHANGED <<call, queue, seen, paths, ret, idVars, relVars, ranked, extVars>>

\* All roots handled: dedupe and return (the locals are gone).
PathsToReturn ==
    /\ pc = "roots"
    /\ rootIdx > Len(call.roots)
    /\ ret' = [api |-> "pathsTo", target |-> call.target, threw |-> FALSE,
               value |-> dedupe(paths, 1, {})]
    /\ pc' = "idle"
    /\ call' = None
    /\ rootIdx' = 0 /\ queue' = <<>> /\ seen' = {} /\ paths' = <<>>
    /\ UNCHANGED <<idVars, relVars, ranked, extVars>>


(* The stable-id operations *)

\* buildStableId(decl) on a declaration of the snapshot; the caller keeps
\* the id it got.
BuildStableId ==
    \E d \in project :
        /\ built' = built \cup {[decl |-> d, id |-> buildStableId(project, d)]}
        /\ UNCHANGED <<project, resolved, ctlVars, pathVars, relVars, ranked, extVars>>

\* resolveStableId(id) on an id some earlier build returned.
ResolveStableId ==
    \E b \in built :
        /\ resolved' = [id |-> b.id, from |-> b.decl,
                        out |-> resolveStableId(project, b.id)]
        /\ UNCHANGED <<project, built, ctlVars, pathVars, relVars, ranked, extVars>>

\* The path an id carries after its source file was moved: no source file
\* of the program has it.
MovedFile == "old.ts"

\* resolveStableId(id) on an id built before its file was moved; the program
\* holds the same declarations under the new path.
ResolveMovedStableId ==
    \E b \in built :
        /\ relocated' = [id |-> [b.id EXCEPT !.file = MovedFile], from |-> b.decl,
                         out |-> resolveStableId(project,
                                                 [b.id EXCEPT !.file = MovedFile])]
        /\ UNCHANGED <<idVars, eq, expVars, genVars, ctlVars, pathVars, relVars, ranked>>

\* The export catalogs a declaration is built under: none, or a barrel
\* index.ts that re-exports the top-level declaration under its own name.
ListExportsChoices(d) ==
    IF d.parent # 0 THEN {{}}
    ELSE {{}, {[moduleFile |-> "index.ts", exportName |-> declName(d),
                symbol |-> SymbolOf(d)]}}

\* The ids buildStableId returns over all snapshots and catalogs.
BuiltIds ==
    UNION { UNION { { buildStableIdListed(P, d, le) : le \in ListExportsChoices(d) }
                    : d \in P } : P \in Projects }

\* The ids a docs file holds: built ids, with or without the content hash.
StoredIds == BuiltIds \cup { [i EXCEPT !.hash = NoHash] : i \in BuiltIds }

EqInputs ==
    { [a |-> a, b |-> b, done |-> FALSE, out |-> FALSE] : a, b \in StoredIds }

\* equalStableId(a, b)
EqualStableId ==
    /\ eq # None /\ ~eq.done
    /\ eq' = [eq EXCEPT !.done = TRUE, !.out = equalStableId(eq.a, eq.b)]
    /\ UNCHANGED <<idVars, relocated, expVars, genVars, ctlVars, pathVars, relVars, ranked>>

(***************************************************************************)
(* PART C - RELATED TYPES                                                  *)
(*                                                                         *)
(* The declarations related() is asked about:                              *)
(*   types.ts                                                              *)
(*     export interface MyType { id: string }                              *)
(*     export type Tree = MyType | Array<Tree>                             *)
(*     export type Node = { next: Node; value: Leaf }                      *)
(*     export function fs(): Promise<string>                               *)
(*     export function fm(): Promise<MyType>                               *)
(*     import { Other } from "../pkg-utils/other"                          *)
(*     export function fo(): Other                                         *)
(*     export class Svc {                                                  *)
(*       run(n: Tree) {}                                                   *)
(*       stop(m: MyType): void {}                                          *)
(*       private hid(x: Node): void {}                                     *)
(*     }                                                                   *)
(*     export function make(): Node                                        *)
(*     export const v = make()                                             *)
(*     export const big = [w, w, ..., w]           // 500 elements         *)
(***************************************************************************)

MAX_RECURSION_DEPTH == 500

\* Absolute paths, as the pieces that matter to the prefix and substring
\* tests made on them: the project directory /work/pkg, a source file in it,
\* the compiler's library under its node_modules, and a file of the
\* neighbouring directory /work/pkg-utils.
projectDir == <<"/", "work", "/", "pkg">>

TypesFile == <<"/", "work", "/", "pkg", "/", "types.ts">>

LibFile ==
    <<"/", "work", "/", "pkg", "/", "node_modules", "/", "typescript", "/",
      "lib.d.ts">>

SiblingFile == <<"/", "work", "/", "pkg", "-utils", "/", "other.ts">>

\* String.prototype.startsWith and includes.
startsWith(str, prefix) ==
    Len(str) >= Len(prefix) /\ SubSeq(str, 1, Len(prefix)) = prefix

includes(str, part) ==
    \E i \in 1..(Len(str) - Len(part) + 1) :
        SubSeq(str, i, i + Len(part) - 1) = part

Sym(decl, file, anonymous, global, typeAlias, topLevel) ==
    [decl |-> decl, file |-> file, anonymous |-> anonymous,
     global |-> global, typeAlias |-> typeAlias, topLevel |-> topLevel]

\* ts.Symbol values: first declaration, its source file, isAnonymousTypeSym,
\* isGlobalOrPrimitive of its declared type, the TypeAlias flag, and whether
\* the first declaration is outside every function.
SymInfo ==
    [MyType  |-> Sym("D_MyType", TypesFile, FALSE, FALSE, FALSE, TRUE),
     Tree    |-> Sym("D_Tree", TypesFile, FALSE, FALSE, TRUE,  TRUE),
     Node    |-> Sym("D_Node", TypesFile, FALSE, FALSE, TRUE,  TRUE),
     NodeLit |-> Sym("D_NodeLit", TypesFile, TRUE,  FALSE, FALSE, TRUE),
     Svc     |-> Sym("D_Svc", TypesFile, FALSE, FALSE, FALSE, TRUE),
     Promise |-> Sym("D_Promise", LibFile, FALSE, TRUE,  FALSE, TRUE),
     Array   |-> Sym("D_Array", LibFile, FALSE, TRUE,  FALSE, TRUE),
     make    |-> Sym("D_makeFn", TypesFile, TRUE,  FALSE, FALSE, TRUE),
     Other   |-> Sym("D_Other", SiblingFile, FALSE, FALSE, FALSE, TRUE),
     w       |-> Sym("D_w", TypesFile, FALSE, TRUE,  FALSE, TRUE)]

\* Type nodes (syntax trees).
TypeReference(sym, typeArguments) ==
    [kind |-> "TypeReference", sym |-> sym, sub |-> typeArguments]

Keyword == [kind |-> "Keyword", sym |-> "", sub |-> <<>>]

UnionType(types) == [kind |-> "UnionType", sym |-> "", sub |-> types]

\* Expressions (syntax trees): sym is what the checker resolves the node to.
Identifier(sym) == [kind |-> "Identifier", sym |-> sym, sub |-> <<>>]

CallExpression(sym, expression) ==
    [kind |-> "CallExpression", sym |-> sym, sub |-> <<expression>>]

ArrayLiteral(elements) ==
    [kind |-> "ArrayLiteralExpression", sym |-> "", sub |-> elements]

SemType(aliasSymbol, types, target, typeArguments, symbol) ==
    [aliasSymbol |-> aliasSymbol, types |-> types, target |-> target,
     typeArguments |-> typeArguments, symbol |-> symbol]

\* ts.Type values as typeTargets reads them: aliasSymbol, the constituents
\* of a union, the symbol of ref.target, typeArguments, and symbol.
SemTypeInfo ==
    [T_Tree    |-> SemType("Tree", <<"T_MyType", "T_ArrTree">>, "", <<>>, ""),
     T_ArrTree |-> SemType("", <<>>, "Array", <<"T_Tree">>, "Array"),
     T_MyType  |-> SemType("", <<>>, "", <<>>, "MyType"),
     T_Node    |-> SemType("Node", <<>>, "", <<>>, "NodeLit"),
     T_ArrStr  |-> SemType("", <<>>, "Array", <<"T_string">>, "Array"),
     T_string  |-> SemType("", <<>>, "", <<>>, "")]

Rel(kind, key, container, typeNodes, inferred, initializer) ==
    [kind |-> kind, key |-> key, container |-> container,
     typeNodes |-> typeNodes, inferred |-> inferred,
     initializer |-> initializer]

ClassMember(kind, modifier, parameters, type) ==
    [kind |-> kind, modifier |-> modifier, parameters |-> parameters,
     type |-> type]

\* The members of the class declarations: kind, accessibility modifier, the
\* parameters' type annotations, and the declared return type (<<>> where
\* the member has none).
ClassInfo ==
    [D_Svc |-> << ClassMember("Method", "public",
                              << TypeReference("Tree", <<>>) >>, <<>>),
                  ClassMember("Method", "public",
                              << TypeReference("MyType", <<>>) >>, <<Keyword>>),
                  ClassMember("Method", "private",
                              << TypeReference("Node", <<>>) >>, <<Keyword>>) >>]

isPublicClassElement(mem) == mem.modifier \notin {"private", "protected"}

\* The class branch of related(): the annotations it walks, member by member
\* from index i on. A constructor gives its parameters; a method gives its
\* parameters and return type when it has a declared return type.
RECURSIVE ClassTypeNodes(_, _)
ClassTypeNodes(members, i) ==
    IF i > Len(members) THEN <<>>
    ELSE LET mem  == members[i]
             here == IF ~isPublicClassElement(mem) THEN <<>>
                     ELSE IF mem.kind = "Constructor" THEN mem.parameters
                     ELSE IF mem.kind = "Method" /\ mem.type # <<>>
                          THEN mem.parameters \o mem.type
                     ELSE <<>>
         IN here \o ClassTypeNodes(members, i + 1)

\* The declarations: which branch of related() handles them, declKey, the
\* enclosing class or interface symbol, the type annotations related() walks
\* (parameters, then return or declared type), the checker's type where
\* there is no annotation, and a variable's initializer.
RelInfo ==
    [D_fs   |-> Rel("Function", "types.ts:130:FunctionDeclaration", "",
                    << TypeReference("Promise", <<Keyword>>) >>, "", None),
     D_fm   |-> Rel("Function", "types.ts:170:FunctionDeclaration", "",
                    << TypeReference("Promise",
                                     << TypeReference("MyType", <<>>) >>) >>,
                    "", None),
     D_fo   |-> Rel("Function", "types.ts:210:FunctionDeclaration", "",
                    << TypeReference("Other", <<>>) >>, "", None),
     D_next |-> Rel("Property", "types.ts:95:PropertySignature", "",
                    << TypeReference("Node", <<>>) >>, "", None),
     D_Svc  |-> Rel("Class", "types.ts:250:ClassDeclaration", "",
                    ClassTypeNodes(ClassInfo.D_Svc, 1), "", None),
     D_n    |-> Rel("Other", "types.ts:265:Parameter", "Svc",
                    <<>>, "T_Tree", None),
     D_v    |-> Rel("Variable", "types.ts:330:VariableDeclaration", "",
                    <<>>, "T_Node",
                    CallExpression("make", Identifier("make"))),
     D_big  |-> Rel("Variable", "types.ts:350:VariableDeclaration", "",
                    <<>>, "T_ArrStr",
                    ArrayLiteral([i \in 1..MAX_RECURSION_DEPTH |-> Identifier("w")]))]

RelDecls == DOMAIN RelInfo

\* The seenDecl filter of the collecting walks: first symbol of each
\* declaration, no empty symbol.
RECURSIVE uniqueByDecl(_, _, _)
uniqueByDecl(syms, i, seenDecl) ==
    IF i > Len(syms) THEN <<>>
    ELSE IF syms[i] = "" \/ SymInfo[syms[i]].decl \in seenDecl
         THEN uniqueByDecl(syms, i + 1, seenDecl)
         ELSE <<syms[i]>>
              \o uniqueByDecl(syms, i + 1, seenDecl \cup {SymInfo[syms[i]].decl})

\* symbolsFromTypeNodeDeep's visit(n): the symbols in visiting order.
RECURSIVE visitTypeNode(_)
visitTypeNode(n) ==
    LET RECURSIVE each(_, _)
        each(nodes, i) == IF i > Len(nodes) THEN <<>>
                          ELSE visitTypeNode(nodes[i]) \o each(nodes, i + 1)
    IN IF n.kind = "TypeReference" THEN <<n.sym>> \o each(n.sub, 1)
       ELSE each(n.sub, 1)

symbolsFromTypeNodeDeep(node) == uniqueByDecl(visitTypeNode(node), 1, {})

\* symbolsFromValueExprDeep's visit(e): the number of visit() calls made and
\* the symbols pushed, in order. No node of a syntax tree is visited twice,
\* so recursionDepth is never decremented.
RECURSIVE visitExpr(_)
visitExpr(e) ==
    LET RECURSIVE each(_, _, _)
        \* the children lo..hi in order (evaluated by halves)
        each(nodes, lo, hi) ==
            IF lo > hi THEN [visits |-> 0, syms |-> <<>>]
            ELSE IF lo = hi THEN visitExpr(nodes[lo])
            ELSE LET mid == (lo + hi) \div 2
                     a   == each(nodes, lo, mid)
                     b   == each(nodes, mid + 1, hi)
                 IN [visits |-> a.visits + b.visits, syms |-> a.syms \o b.syms]
        inner == each(e.sub, 1, Len(e.sub))
    IN [visits |-> 1 + inner.visits, syms |-> <<e.sym>> \o inner.syms]

\* Whether the walk throws, and otherwise what it returns.
symbolsFromValueExprDeep(expr) ==
    LET r == visitExpr(expr) IN
    IF r.visits > MAX_RECURSION_DEPTH
    THEN [threw |-> TRUE, syms |-> <<>>]
    ELSE [threw |-> FALSE, syms |-> uniqueByDecl(r.syms, 1, {})]

\* inThisPackage(sym): the first declaration's file is under no node_modules
\* directory and its path starts with projectDir.
inThisPackage(s) ==
    LET abs == SymInfo[s].file IN
    IF includes(abs, <<"/", "node_modules", "/">>) THEN FALSE
    ELSE startsWith(abs, projectDir)

addSetHas(set, d) == \E i \in 1..Len(set) : set[i].decl = d

\* related's add(s) for target declaration decl.
add(set, decl, s) ==
    LET i == SymInfo[s] IN
    IF ~inThisPackage(s) \/ i.anonymous THEN set
    ELSE IF ~i.typeAlias /\ i.global THEN set
    ELSE IF i.decl = decl \/ addSetHas(set, i.decl) THEN set
    ELSE Append(set, [symbol |-> s, decl |-> i.decl])

\* related's addValueRef(s).
addValueRef(set, decl, s) ==
    LET i == SymInfo[s] IN
    IF i.decl = decl \/ ~i.topLevel \/ ~inThisPackage(s) \/ addSetHas(set, i.decl)
    THEN set
    ELSE Append(set, [symbol |-> s, decl |-> i.decl])

RECURSIVE addAll(_, _, _, _)
addAll(set, decl, syms, i) ==
    IF i > Len(syms) THEN set
    ELSE addAll(add(set, decl, syms[i]), decl, syms, i + 1)

RECURSIVE addValueRefAll(_, _, _, _)
addValueRefAll(set, decl, syms, i) ==
    IF i > Len(syms) THEN set
    ELSE addValueRefAll(addValueRef(set, decl, syms[i]), decl, syms, i + 1)

\* symbolsFromTypeNodeDeep(n).forEach(add) for each annotation in turn.
RECURSIVE addTypeNodes(_, _, _, _)
addTypeNodes(set, decl, nodes, i) ==
    IF i > Len(nodes) THEN set
    ELSE addTypeNodes(addAll(set, decl, symbolsFromTypeNodeDeep(nodes[i]), 1),
                      decl, nodes, i + 1)

addContainerIfAny(set, decl) ==
    IF RelInfo[decl].container # ""
    THEN add(set, decl, RelInfo[decl].container)
    ELSE set

\* The kinds whose branch adds the container before the types.
ContainerFirst == {"Function", "Property"}

\* Mutant: typeTargets forgets what it has visited.
visitedTypesHas_Never(v, ty) == FALSE

\* visitedTypes.has(ty) of typeTargets.
visitedTypesHas(v, ty) == ty \in v

\* typeTargets' pushSym(s).
pushSym(o, s) ==
    IF s = "" \/ \E i \in 1..Len(o) : SymInfo[o[i]].decl = SymInfo[s].decl
    THEN o ELSE Append(o, s)

Result(api, target, threw, value) ==
    [api |-> api, target |-> target, threw |-> threw, value |-> value]

Record(f, d, r) == IF f[d] = None THEN [f EXCEPT ![d] = r] ELSE f

\* related(target) up to its first typeTargets call or its return: the
\* cycle test, the call-stack entry, and the branch of the declaration kind
\* as far as it walks syntax.
RelatedEnter ==
    /\ pc = "idle"
    /\ \E d \in RelDecls :
         LET info == RelInfo[d] IN
         IF info.key \in relatedCallStack
         THEN /\ ret' = Result("related", d, FALSE, <<>>)
              /\ fresh' = Record(fresh, d, [threw |-> FALSE, value |-> <<>>])
              /\ UNCHANGED <<pc, call, relatedCallStack, stack, visitedTypes,
                             out, addSet>>
         ELSE /\ relatedCallStack' = relatedCallStack \cup {info.key}
              /\ LET walk == IF info.initializer = None
                             THEN [threw |-> FALSE, syms |-> <<>>]
                             ELSE symbolsFromValueExprDeep(info.initializer)
                     s0 == addValueRefAll(<<>>, d, walk.syms, 1)
                     s1 == IF info.kind \in ContainerFirst
                           THEN addContainerIfAny(s0, d) ELSE s0
                     s2 == addTypeNodes(s1, d, info.typeNodes, 1)
                 IN  IF walk.threw
                     THEN /\ ret' = Result("related", d, TRUE, <<>>)
                          /\ fresh' = Record(fresh, d,
                                             [threw |-> TRUE, value |-> <<>>])
                          /\ UNCHANGED <<pc, call, stack, visitedTypes, out,
                                         addSet>>
                     ELSE /\ call' = [api |-> "related", target |-> d]
                          /\ addSet' = s2
                          /\ ret' = None
                          /\ out' = <<>>
                          /\ visitedTypes' = {}
                          /\ IF info.inferred # ""
                             THEN pc' = "typeTargets"
                                  /\ stack' = <<info.inferred>>
                             ELSE pc' = "relatedEnd" /\ stack' = <<>>
                          /\ UNCHANGED fresh
    /\ UNCHANGED <<idVars, pathVars, ranked, extVars>>

\* One visit(ty) call of typeTargets.
TypeTargetsVisit ==
    /\ pc = "typeTargets"
    /\ stack # <<>>
    /\ LET ty == Head(stack)
           t  == SemTypeInfo[ty]
           o1 == pushSym(out, t.aliasSymbol)
       IN  IF visitedTypesHas(visitedTypes, ty)
           THEN /\ stack' = Tail(stack)
                /\ UNCHANGED <<visitedTypes, out>>
           ELSE /\ visitedTypes' = visitedTypes \cup {ty}
                /\ IF t.types # <<>>
                   THEN out' = o1 /\ stack' = t.types \o Tail(stack)
                   ELSE IF t.target # ""
                   THEN out' = pushSym(o1, t.target)
                        /\ stack' = t.typeArguments \o Tail(stack)
                   ELSE out' = pushSym(o1, t.symbol) /\ stack' = Tail(stack)
    /\ UNCHANGED <<pc, call, ret, relatedCallStack, addSet, fresh, idVars,
                   pathVars, ranked, extVars>>

\* typeTargets returns: .forEach(add).
TypeTargetsReturn ==
    /\ pc = "typeTargets"
    /\ stack = <<>>
    /\ addSet' = addAll(addSet, call.target, out, 1)
    /\ pc' = "relatedEnd"
    /\ UNCHANGED <<call, ret, relatedCallStack, stack, visitedTypes, out, fresh,
                   idVars, pathVars, ranked, extVars>>

\* The end of the branch: the trailing addContainerIfAny, the call-stack
\* delete of the default branch, and the return (the locals are gone).
RelatedReturn ==
    /\ pc = "relatedEnd"
    /\ LET d      == call.target
           info   == RelInfo[d]
           result == IF info.kind \in ContainerFirst \cup {"TypeAlias"}
                     THEN addSet ELSE addContainerIfAny(addSet, d)
       IN  /\ ret' = Result("related", d, FALSE, result)
           /\ fresh' = Record(fresh, d, [threw |-> FALSE, value |-> result])
           /\ relatedCallStack' = IF info.kind = "Other"
                                  THEN relatedCallStack \ {info.key}
                                  ELSE relatedCallStack
    /\ pc' = "idle"
    /\ call' = None
    /\ stack' = <<>> /\ visitedTypes' = {} /\ out' = <<>> /\ addSet' = <<>>
    /\ UNCHANGED <<idVars, pathVars, ranked, extVars>>

(***************************************************************************)
(* PART D - PATH RANKING                                                   *)
(***************************************************************************)

\* Bound: the deepest directory nesting of a root's module file.
MaxDepth == 10

\* Score weights of rankPaths.
BaseScore == 100

EntrypointBaseBonus == 50

PreferredRootBonus == 20

DefaultExportBonus == 15

TypeEntrypointBonus == 20

TypeNamespacePenalty == 5

ClassRootBonus == 10

StepPenalty == 10

PrivateStepPenalty == 6

ClientPenalty == 12

DepthFactorType == 4

DepthFactorValue == 3

\* String lengths and first characters of the names in use.
StrLen ==
    [foo |-> 3, internal |-> 8, OpenAI |-> 6, default |-> 7, bar |-> 3,
     create |-> 6, _client |-> 7]

FirstChar ==
    [foo |-> "f", internal |-> "i", OpenAI |-> "O", default |-> "d",
     bar |-> "b", create |-> "c", _client |-> "_"]

\* projectRel(moduleFile): the path segments below the package root.
projectRel(file) == [i \in 1..file.depth |-> "pkg"] \o <<file.base>>

\* Mutant: no file name marks an entrypoint.
looksLikeEntrypoint_Never(rel) == FALSE

looksLikeEntrypoint(rel) ==
    \/ rel = <<"index.ts">>
    \/ rel = <<"src", "index.ts">>
    \/ rel[Len(rel)] \in {"index.ts", "index.tsx", "index.mts", "index.cts"}

\* pretty.length of the path toAccessPath built (root without suffix when
\* there are steps).
RECURSIVE ChainLength(_)
ChainLength(steps) ==
    IF steps = <<>> THEN 0
    ELSE 1 + StrLen[Head(steps).member]
         + (IF Head(steps).kind = "call" THEN 5 ELSE 0)
         + ChainLength(Tail(steps))

PrettyLength(p) ==
    LET rootName == IF p.root.exportName = "default" THEN 9
                    ELSE StrLen[p.root.exportName]
    IN (IF p.requiresNew THEN rootName + 9 ELSE rootName)
       + (IF p.steps = <<>> THEN 5 ELSE 0) + ChainLength(p.steps)

Max(a, b) == IF a > b THEN a ELSE b

\* The score rankPaths gives path p under opts.
Score(p, opts) ==
    LET rel          == projectRel(p.root.moduleFile)
        stepCount    == Len(SelectSeq(p.steps, LAMBDA s : s.kind # "call"))
        privateSteps == Len(SelectSeq(p.steps,
                              LAMBDA s : FirstChar[s.member] \in {"_", "#"}))
        hasClientHop == \E i \in 1..Len(p.steps) : p.steps[i].member = "_client"
        depth        == Len(rel) - 1
        isEntrypoint == \/ p.root.moduleFile \in opts.entrypoints
                        \/ looksLikeEntrypoint(rel)
        depthFactor  == IF opts.targetIsType THEN DepthFactorType
                        ELSE DepthFactorValue
    IN  BaseScore
        + (IF isEntrypoint THEN EntrypointBaseBonus ELSE 0)
        + (IF opts.targetIsType /\ isEntrypoint THEN TypeEntrypointBonus ELSE 0)
        + (IF p.root.exportName \in opts.preferredRootNames
           THEN PreferredRootBonus ELSE 0)
        + (IF p.root.exportName = "default" THEN DefaultExportBonus ELSE 0)
        + (IF p.root.isClass THEN ClassRootBonus ELSE 0)
        - stepCount * StepPenalty
        - privateSteps * PrivateStepPenalty
        - (IF hasClientHop THEN ClientPenalty ELSE 0)
        - Max(0, depth - 1) * depthFactor
        - (IF opts.targetIsType /\ p.root.importKind = "namespace"
           THEN TypeNamespacePenalty ELSE 0)

\* Mutant: the comparator sorts by ascending score.
SortsBefore_Ascending(a, b) == a.score < b.score

\* The comparator of scored.sort: a sorts before b.
SortsBefore(a, b) ==
    \/ a.score > b.score
    \/ a.score = b.score /\ PrettyLength(a) < PrettyLength(b)

\* Array.prototype.sort (stable) by insertion.
RECURSIVE Insert(_, _)
Insert(sorted, x) ==
    IF sorted = <<>> THEN <<x>>
    ELSE IF SortsBefore(x, Head(sorted)) THEN <<x>> \o sorted
    ELSE <<Head(sorted)>> \o Insert(Tail(sorted), x)

RECURSIVE SortScored(_, _)
SortScored(sorted, rest) ==
    IF rest = <<>> THEN sorted
    ELSE SortScored(Insert(sorted, Head(rest)), Tail(rest))

rankPaths(ps, opts) ==
    SortScored(<<>>, [i \in 1..Len(ps) |->
                        [root |-> ps[i].root, steps |-> ps[i].steps,
                         requiresNew |-> ps[i].requiresNew,
                         score |-> Score(ps[i], opts)]])

File(depth, base) == [depth |-> depth, base |-> base]

RankRoot(exportName, isClass, moduleFile) ==
    [exportName |-> exportName,
     importKind |-> IF exportName = "default" THEN "default" ELSE "named",
     isClass |-> isClass, moduleFile |-> moduleFile]

\* Paths of the form <root>.bar.create(...) from a root whose file is an
\* entrypoint by name or by option.
PublicPaths ==
    { [root |-> RankRoot(n, c, File(d, b)),
       steps |-> << [kind |-> "instance", member |-> "bar"],
                    [kind |-> "call", member |-> "create"] >>,
       requiresNew |-> FALSE] :
      n \in {"foo", "default"}, c \in BOOLEAN, d \in 0..MaxDepth,
      b \in {"index.ts", "api.ts"} }

\* Paths of the form <root>._client.create(...) from a root whose file is
\* no entrypoint.
ClientPaths ==
    { [root |-> RankRoot(n, c, File(d, "internal.ts")),
       steps |-> << [kind |-> "instance", member |-> "_client"],
                    [kind |-> "call", member |-> "create"] >>,
       requiresNew |-> FALSE] :
      n \in {"internal", "default"}, c \in BOOLEAN,
      d \in 0..MaxDepth }

\* opts.preferredRootNames, with the default of rankPaths for undefined.
PreferredChoices == { {"default", "OpenAI"}, {}, {"internal"} }

\* The rankings asked for: the two raw paths, their order in the raw list,
\* and the options given.
RankInputs ==
    { [a |-> a, b |-> b, aFirst |-> aFirst, out |-> <<>>,
       opts |-> [entrypoints |-> IF a.root.moduleFile.base = "index.ts"
                                 THEN {} ELSE {a.root.moduleFile},
                 preferredRootNames |-> pref,
                 targetIsType |-> asType]] :
      a \in PublicPaths, b \in ClientPaths, pref \in PreferredChoices,
      asType \in BOOLEAN, aFirst \in BOOLEAN }

\* pathsToRanked(target, opts) on a target with a runtime value, from the
\* point where pathsTo has returned the two paths: targetIsType is replaced
\* by the target's own kind.
PathsToRanked ==
    /\ ranked # None
    /\ ranked.out = <<>>
    /\ LET opts == [ranked.opts EXCEPT !.targetIsType = FALSE]
           raw  == IF ranked.aFirst THEN <<ranked.a, ranked.b>>
                   ELSE <<ranked.b, ranked.a>>
       IN  ranked' = [ranked EXCEPT !.out = rankPaths(raw, opts)]
    /\ UNCHANGED <<idVars, ctlVars, pathVars, relVars, extVars>>

(***************************************************************************)
(* PART E - EXPORT CATALOG                                                 *)
(***************************************************************************)

\* Bound: the largest number of `export =` statements of index.ts.
MaxExportEquals == 2

\* The export names of a module, in the order getExportsOfModule lists them.
NameOrder == <<"default", "foo", "ns">>

ExportNames == {"default", "foo", "ns"}

\* What the checker knows of an export symbol: the kind of its declaration
\* and whether its resolved symbol has a runtime value.
NoSymbol == [decl |-> "none", runtime |-> FALSE]

SymChoices ==
    { NoSymbol,
      [decl |-> "NamespaceExport",      runtime |-> TRUE],   \* export * as n from
      [decl |-> "FunctionDeclaration",  runtime |-> TRUE],
      [decl |-> "InterfaceDeclaration", runtime |-> FALSE] }

\* index.ts with any exports, lib.ts with at most `foo` and one `export =`.
ModuleInputs ==
    { << [file |-> "index.ts", exports |-> e, exportEquals |-> n],
         [file |-> "lib.ts",
          exports |-> [x \in ExportNames |-> IF x = "foo" THEN f ELSE NoSymbol],
          exportEquals |-> k] >> :
      e \in [ExportNames -> SymChoices], n \in 0..MaxExportEquals,
      f \in {NoSymbol, [decl |-> "FunctionDeclaration", runtime |-> TRUE]},
      k \in 0..1 }

\* Mutant: no export is recognised as `export * as ns`.
isNamespaceReexport_Never(exp) == FALSE

isNamespaceReexport(exp) == exp.decl = "NamespaceExport"

\* The record pushed for one symbol of getExportsOfModule.
ExportRecord(mod, expName) ==
    LET exp        == mod.exports[expName]
        isNs       == isNamespaceReexport(exp)
        isTypeOnly == IF isNs THEN FALSE ELSE ~exp.runtime
        kind       == IF expName = "default" THEN "default"
                      ELSE IF isNs THEN "namespace" ELSE "named"
    IN  [exportName |-> expName, importKind |-> kind, moduleFile |-> mod.file,
         isTypeOnly |-> isTypeOnly]

ExportEqualsRecord(mod) ==
    [exportName |-> "export=", importKind |-> "exportEquals",
     moduleFile |-> mod.file, isTypeOnly |-> FALSE]

\* The records of one source file: standard and re-exports, then `export =`.
ModuleRecords(mod) ==
    LET names == SelectSeq(NameOrder, LAMBDA x : mod.exports[x] # NoSymbol)
    IN  [i \in 1..Len(names) |-> ExportRecord(mod, names[i])]
        \o [i \in 1..mod.exportEquals |-> ExportEqualsRecord(mod)]

RECURSIVE ExportResults(_, _)
ExportResults(mods, i) ==
    IF i > Len(mods) THEN <<>>
    ELSE ModuleRecords(mods[i]) \o ExportResults(mods, i + 1)

ExportKey(r) ==
    <<r.moduleFile, r.exportName, r.importKind,
      IF r.isTypeOnly THEN "type" ELSE "value">>

\* Mutant: the results are returned as collected.
dedupeExports_Keep(arr, i, seenKeys) == arr

\* dedupe(results, key): the first record of every key, in order.
RECURSIVE dedupeExports(_, _, _)
dedupeExports(arr, i, seenKeys) ==
    IF i > Len(arr) THEN <<>>
    ELSE IF ExportKey(arr[i]) \in seenKeys
         THEN dedupeExports(arr, i + 1, seenKeys)
         ELSE <<arr[i]>> \o dedupeExports(arr, i + 1, seenKeys \cup {ExportKey(arr[i])})

collectExports(mods) == dedupeExports(ExportResults(mods, 1), 1, {})

\* Absolute paths as the sequence of their segments, a segment being the
\* pieces of its name: /work/pkg/src-gen/x.ts is
\* <<<<"work">>, <<"pkg">>, <<"src", "-gen">>, <<"x", ".ts">>>>.
pkgRootAbs == << <<"work">>, <<"pkg">> >>

srcAbs == pkgRootAbs \o << <<"src">> >>

\* The path as a string: every segment behind a separator.
RECURSIVE PathString(_)
PathString(segs) ==
    IF segs = <<>> THEN <<>>
    ELSE <<"/">> \o Head(segs) \o PathString(Tail(segs))

\* compilerOptions.rootDir resolved; <<>> where it is not set.
RootDirChoices ==
    { <<>>, << <<"work">> >>, pkgRootAbs, srcAbs, srcAbs \o << <<"lib">> >> }

\* The absolute path of a module file of the catalog.
ModuleFileAbs(file) ==
    IF file = "index.ts" THEN srcAbs \o << <<"index", ".ts">> >>
    ELSE srcAbs \o << <<"lib", ".ts">> >>

\* The source root to cut: rootDir, else <packageRoot>/src, else packageRoot,
\* else the directory of the file.
cutBase(fromAbs, rootDirAbs) ==
    IF rootDirAbs # <<>> /\ startsWith(PathString(fromAbs), PathString(rootDirAbs))
    THEN rootDirAbs
    ELSE IF startsWith(PathString(fromAbs), PathString(srcAbs)) THEN srcAbs
    ELSE IF startsWith(PathString(fromAbs), PathString(pkgRootAbs))
    THEN pkgRootAbs
    ELSE SubSeq(fromAbs, 1, Len(fromAbs) - 1)

\* path.relative(from, to): up from `from` to the common directory, then
\* down to `to`.
RECURSIVE CommonLength(_, _)
CommonLength(a, b) ==
    IF a = <<>> \/ b = <<>> \/ Head(a) # Head(b) THEN 0
    ELSE 1 + CommonLength(Tail(a), Tail(b))

relative(from, to) ==
    LET k == CommonLength(from, to) IN
    [i \in 1..(Len(from) - k) |-> <<"..">>] \o SubSeq(to, k + 1, Len(to))

\* dropExt: a trailing .ts extension is removed from the last segment.
dropExt(rel) ==
    IF rel = <<>> THEN rel
    ELSE LET last == rel[Len(rel)] IN
         IF last[Len(last)] = ".ts"
         THEN SubSeq(rel, 1, Len(rel) - 1) \o <<SubSeq(last, 1, Len(last) - 1)>>
         ELSE rel

\* dropIndex: a last segment that is `index` is removed.
dropIndex(rel) ==
    IF rel # <<>> /\ rel[Len(rel)] = <<"index">>
    THEN SubSeq(rel, 1, Len(rel) - 1)
    ELSE rel

\* dropIndex(dropExt(relative path of the module file)).
ModuleRel(fromAbs, rootDirAbs) ==
    dropIndex(dropExt(relative(cutBase(fromAbs, rootDirAbs), fromAbs)))

ModuleSpecifier(fromAbs, rootDirAbs, packageName) ==
    LET rel == ModuleRel(fromAbs, rootDirAbs) IN
    IF packageName # ""
    THEN IF rel # <<>> THEN <<packageName>> \o PathString(rel)
         ELSE <<packageName>>
    ELSE IF rel = <<>> THEN <<"./">>
    ELSE IF rel[1] = <<"..">> THEN Tail(PathString(rel))
    ELSE <<".">> \o PathString(rel)

\* The statement text: its form, the binding name written into it and the
\* module specifier.
makeImportStatement(exp, rootDirAbs, packageName) ==
    LET spec == ModuleSpecifier(ModuleFileAbs(exp.moduleFile), rootDirAbs,
                                packageName) IN
    IF exp.importKind = "default"
    THEN [form |-> "import X from", binding |-> exp.exportName, spec |-> spec]
    ELSE IF exp.importKind \in {"named", "namespace"}
    THEN IF exp.isTypeOnly
         THEN [form |-> "import type { X } from", binding |-> exp.exportName,
               spec |-> spec]
         ELSE [form |-> "import { X } from", binding |-> exp.exportName,
               spec |-> spec]
    ELSE [form |-> "import X = require", binding |-> exp.exportName,
          spec |-> spec]

\* The module specifier of makeImportStatement for one module file, root
\* directory and package name.
SelectCutBase ==
    /\ imported # None
    /\ imported.spec = <<>>
    /\ imported' = [imported EXCEPT
           !.cutBase = cutBase(imported.fromAbs, imported.rootDirAbs),
           !.spec = ModuleSpecifier(imported.fromAbs, imported.rootDirAbs,
                                    imported.packageName)]
    /\ UNCHANGED <<modules, catalog, idVars, relocated, eq, genVars, ctlVars,
                   pathVars, relVars, ranked>>

\* The constructor: this.allRoots = this.list().
ListExports ==
    /\ catalog = None
    /\ catalog' = [allRoots |-> collectExports(modules)]
    /\ UNCHANGED <<modules, imported, idVars, relocated, eq, genVars, ctlVars,
                   pathVars, relVars, ranked>>

\* makeImportStatement(exp, packageName) on a record of the catalog.
MakeImportStatement ==
    /\ catalog # None
    /\ \E i \in 1..Len(catalog.allRoots) : \E packageName \in {"", "my-lib"} :
       \E rootDirAbs \in RootDirChoices :
          imported' = [exp  |-> catalog.allRoots[i],
                       stmt |-> makeImportStatement(catalog.allRoots[i],
                                                    rootDirAbs, packageName)]
    /\ UNCHANGED <<modules, catalog, idVars, relocated, eq, genVars, ctlVars,
                   pathVars, relVars, ranked>>

(***************************************************************************)
(* PART F - THE GENERATE COMMAND                                           *)
(***************************************************************************)

\* Bounds: the largest --threads value and the number of symbols.
MaxThreads == 3

MaxSymbols == 4

\* The symbols of a workspace with the source files a.ts and b.ts: listed
\* file by file, or with the files alternating.
SymbolPool ==
    << [file |-> "a.ts", hash |-> 1], [file |-> "a.ts", hash |-> 2],
       [file |-> "b.ts", hash |-> 3], [file |-> "b.ts", hash |-> 4],
       [file |-> "a.ts", hash |-> 5] >>

SymbolOrders == { <<1, 2, 3, 4, 5>>, <<1, 3, 2, 4, 5>> }

SymbolLists ==
    { [i \in 1..MaxSymbols |-> SymbolPool[o[i]]] : o \in SymbolOrders }

HashesOf(file) ==
    { SymbolPool[i].hash : i \in { j \in 1..Len(SymbolPool) : SymbolPool[j].file = file } }

\* A docs file: the symbol entries found when the command starts, and the
\* lines this run appended.
DocsInputs ==
    { [f \in {"a.ts", "b.ts"} |->
          [existing |-> IF f = "a.ts" THEN ea ELSE eb, appended |-> <<>>]] :
      ea \in SUBSET HashesOf("a.ts"), eb \in SUBSET HashesOf("b.ts") }

\* options.threads || 1; 0 stands for an unset, zero or unparsable option.
numThreadsOf(opts) == IF opts.threads = 0 THEN 1 ELSE opts.threads

\* Mutant: the initial fill does not look at the number of threads.
CanStart_Always(active, numThreads) == TRUE

CanStart(active, numThreads) == Len(active) < numThreads

\* Mutant: the cache is loaded for the first file only.
NeedsLoad_FirstOnly(symbol, cache) == cache.currentFile = ""

NeedsLoad(symbol, cache) == symbol.file # cache.currentFile

\* The text of the source files of the workspace.
FileText == [f \in {"a.ts", "b.ts"} |-> <<"text of", f>>]

readFileSync_Stale(file) == FileText["a.ts"]

\* fs.readFileSync(path.join(projectPath, file)).toString("utf8")
readFileSync(file) == FileText[file]

\* The id hashes of the symbol entries of a docs file.
RecordedHashes(docs) ==
    docs.existing \cup { docs.appended[i] : i \in 1..Len(docs.appended) }

\* The synchronous head of processSymbolAsync: the cache after the file
\* switch.
LoadCache(symbol, cache, docs, opts) ==
    IF NeedsLoad(symbol, cache)
    THEN [currentFile |-> symbol.file,
          fileContent |-> readFileSync(symbol.file),
          existingDocSymbols |-> IF opts.continue
                                 THEN RecordedHashes(docs[symbol.file]) ELSE {}]
    ELSE cache

AlreadyDocumented(symbol, cache, opts) ==
    opts.continue /\ symbol.hash \in cache.existingDocSymbols

\* processNextSymbol(): takes the next symbol, runs processSymbolAsync up to
\* its first await and pushes the promise onto active. A promise that waits
\* for indexer.processSymbol holds the file content given to that call.
StartNext(active) ==
    LET idx    == nextSymbolIndex + 1
        symbol == symbolInfos[idx]
        cache  == LoadCache(symbol, fileCache, docsFiles, options)
        skip   == AlreadyDocumented(symbol, cache, options)
    IN  /\ nextSymbolIndex' = idx
        /\ fileCache' = cache
        /\ sent' = IF skip THEN sent ELSE sent \cup {idx}
        /\ activePromises' =
              Append(active, [sym     |-> idx,
                              state   |-> IF skip THEN "fulfilled" ELSE "pending",
                              content |-> IF skip THEN <<>>
                                          ELSE cache.fileContent])

\* The initial filling of activePromises, one loop iteration per step.
Fill ==
    /\ gpc = "fill"
    /\ IF /\ CanStart(activePromises, numThreadsOf(options))
          /\ nextSymbolIndex < Len(symbolInfos)
       THEN StartNext(activePromises) /\ UNCHANGED <<gpc, docsFiles>>
       ELSE /\ gpc' = "race"
            /\ UNCHANGED <<docsFiles, fileCache, activePromises, nextSymbolIndex,
                           sent>>
    /\ UNCHANGED <<symbolInfos, options, idVars, relocated, eq, expVars, ctlVars,
                   pathVars, relVars, ranked>>

\* indexer.processSymbol answers: the rest of processSymbolAsync appends the
\* entry to the docs file of the symbol's source file.
IndexerResolves ==
    /\ gpc \in {"race", "failed"}
    /\ \E i \in 1..Len(activePromises) :
          /\ activePromises[i].state = "pending"
          /\ LET symbol == symbolInfos[activePromises[i].sym] IN
             docsFiles' = [docsFiles EXCEPT ![symbol.file].appended =
                              Append(@, symbol.hash)]
          /\ activePromises' = [activePromises EXCEPT ![i].state = "fulfilled"]
    /\ UNCHANGED <<symbolInfos, options, fileCache, nextSymbolIndex, gpc, sent,
                   idVars, relocated, eq, expVars, ctlVars, pathVars, relVars,
                   ranked>>

\* indexer.processSymbol fails: the promise is rejected.
IndexerRejects ==
    /\ gpc \in {"race", "failed"}
    /\ \E i \in 1..Len(activePromises) :
          /\ activePromises[i].state = "pending"
          /\ activePromises' = [activePromises EXCEPT ![i].state = "rejected"]
    /\ UNCHANGED <<symbolInfos, options, docsFiles, fileCache, nextSymbolIndex,
                   gpc, sent, idVars, relocated, eq, expVars, ctlVars, pathVars,
                   relVars, ranked>>

Splice(seq, i) == SubSeq(seq, 1, i - 1) \o SubSeq(seq, i + 1, Len(seq))

\* One iteration of the main loop: Promise.race over the active promises,
\* removal of the settled one, start of the next symbol.
Race ==
    /\ gpc = "race"
    /\ IF activePromises = <<>>
       THEN /\ gpc' = "done"
            /\ UNCHANGED <<docsFiles, fileCache, activePromises, nextSymbolIndex,
                           sent>>
       ELSE \E completedIndex \in 1..Len(activePromises) :
               /\ activePromises[completedIndex].state # "pending"
               /\ IF activePromises[completedIndex].state = "rejected"
                  THEN /\ gpc' = "failed"
                       /\ UNCHANGED <<docsFiles, fileCache, activePromises,
                                      nextSymbolIndex, sent>>
                  ELSE /\ IF nextSymbolIndex < Len(symbolInfos)
                          THEN StartNext(Splice(activePromises, completedIndex))
                          ELSE /\ activePromises' =
                                     Splice(activePromises, completedIndex)
                               /\ UNCHANGED <<fileCache, nextSymbolIndex, sent>>
                       /\ UNCHANGED <<gpc, docsFiles>>
    /\ UNCHANGED <<symbolInfos, options, idVars, relocated, eq, expVars, ctlVars,
                   pathVars, relVars, ranked>>

(***************************************************************************)
(* SPECIFICATIONS                                                          *)
(***************************************************************************)

EngineIdle ==
    /\ pc = "idle"
    /\ call = None
    /\ ret = None
    /\ rootIdx = 0
    /\ queue = <<>>
    /\ seen = {}
    /\ paths = <<>>
    /\ relatedCallStack = {}
    /\ stack = <<>>
    /\ visitedTypes = {}
    /\ out = <<>>
    /\ addSet = <<>>
    /\ fresh = [d \in RelDecls |-> None]

\* No call of the other components is in progress.
NoExports == modules = <<>> /\ catalog = None /\ imported = None

\* The generate command is not running.
NoGenerate ==
    /\ symbolInfos = <<>>
    /\ options = None
    /\ docsFiles = None
    /\ fileCache = None
    /\ activePromises = <<>>
    /\ nextSymbolIndex = 0
    /\ gpc = "off"
    /\ sent = {}

ExtIdle == relocated = None /\ eq = None /\ NoExports /\ NoGenerate

NoProject == project = {} /\ built = {} /\ resolved = None

\* Stable ids over every small project.
InitId ==
    /\ project \in Projects
    /\ built = {}
    /\ resolved = None
    /\ relocated = None /\ eq = None /\ NoExports /\ NoGenerate
    /\ EngineIdle
    /\ ranked = None

NextId == BuildStableId \/ ResolveStableId \/ ResolveMovedStableId

SpecId == InitId /\ [][NextId]_vars

\* One engine instance after construction.
InitEngine == NoProject /\ ExtIdle /\ EngineIdle /\ ranked = None

\* The steps of a call that has started.
Running ==
    \/ PathsToRoot
    \/ PathsToBfs
    \/ PathsToBfsDone
    \/ PathsToReturn
    \/ TypeTargetsVisit
    \/ TypeTargetsReturn
    \/ RelatedReturn

NextEngine == PathsToEnter \/ RelatedEnter \/ Running

\* The instance serves calls one after the other; a call that has started
\* runs on (synchronous code, no suspension points).
SpecEngine == InitEngine /\ [][NextEngine]_vars /\ WF_vars(Running)

\* Ranking of two raw paths.
InitRank == NoProject /\ ExtIdle /\ EngineIdle /\ ranked \in RankInputs

NextRank == PathsToRanked

SpecRank == InitRank /\ [][NextRank]_vars

\* The rankings of two paths of one shape from different roots, where equal
\* scores occur.
SortInputs ==
    { x \in { [a |-> a, b |-> b, aFirst |-> aFirst, out |-> <<>>,
               opts |-> [entrypoints |-> {},
                         preferredRootNames |-> {"default", "OpenAI"},
                         targetIsType |-> FALSE]] :
               a \in PublicPaths, b \in PublicPaths, aFirst \in BOOLEAN } :
        x.a # x.b }

InitSort == NoProject /\ ExtIdle /\ EngineIdle /\ ranked \in SortInputs

SpecSort == InitSort /\ [][NextRank]_vars

\* equalStableId over every pair of stored ids.
InitEqual ==
    /\ NoProject /\ EngineIdle /\ ranked = None
    /\ relocated = None /\ NoExports /\ NoGenerate
    /\ eq \in EqInputs

NextEqual == EqualStableId

SpecEqual == InitEqual /\ [][NextEqual]_vars

\* The export catalog of every small program, and the import statements of
\* its records.
InitExports ==
    /\ NoProject /\ EngineIdle /\ ranked = None
    /\ relocated = None /\ eq = None /\ NoGenerate
    /\ modules \in ModuleInputs
    /\ catalog = None
    /\ imported = None

NextExports == ListExports \/ MakeImportStatement

SpecExports == InitExports /\ [][NextExports]_vars

\* makeImportStatement as a function of the module file, rootDir and the
\* package name: files under src, under directories beside it, at the
\* package root and outside the package.
ImportFiles ==
    { srcAbs \o << <<"index", ".ts">> >>,
      srcAbs \o << <<"lib">>, <<"a", ".ts">> >>,
      srcAbs \o << <<"lib">>, <<"index", ".ts">> >>,
      pkgRootAbs \o << <<"src", "-gen">>, <<"x", ".ts">> >>,
      pkgRootAbs \o << <<"test">>, <<"t", ".ts">> >>,
      pkgRootAbs \o << <<"index", ".ts">> >>,
      << <<"work">>, <<"pkg", "-utils">>, <<"other", ".ts">> >>,
      << <<"opt">>, <<"o", ".ts">> >> }

ImportInputs ==
    [fromAbs : ImportFiles, rootDirAbs : RootDirChoices,
     packageName : {"", "my-lib"}, cutBase : {<<>>}, spec : {<<>>}]

InitImport ==
    /\ NoProject /\ EngineIdle /\ ranked = None
    /\ relocated = None /\ eq = None /\ NoGenerate
    /\ modules = <<>> /\ catalog = None
    /\ imported \in ImportInputs

NextImport == SelectCutBase

SpecImport == InitImport /\ [][NextImport]_vars

\* processWorkspace from the point where the symbols are listed.
InitGenerate ==
    /\ NoProject /\ EngineIdle /\ ranked = None
    /\ relocated = None /\ eq = None /\ NoExports
    /\ symbolInfos \in SymbolLists
    /\ options \in [threads : 0..MaxThreads, continue : BOOLEAN]
    /\ docsFiles \in DocsInputs
    /\ fileCache = [currentFile |-> "", fileContent |-> <<>>,
                    existingDocSymbols |-> {}]
    /\ activePromises = <<>>
    /\ nextSymbolIndex = 0
    /\ gpc = "fill"
    /\ sent = {}

NextGenerate == Fill \/ IndexerResolves \/ IndexerRejects \/ Race

SpecGenerate == InitGenerate /\ [][NextGenerate]_vars

\* The values the command line gives options.threads: what parseInt(value,
\* 10) yields for the text after --threads, a negative number included; 0
\* stands for an unset, zero or unparsable option.
ThreadsValues == (0 - 1)..MaxThreads

\* processWorkspace as the command line starts it.
InitCli ==
    /\ NoProject /\ EngineIdle /\ ranked = None
    /\ relocated = None /\ eq = None /\ NoExports
    /\ symbolInfos \in SymbolLists
    /\ options \in [threads : ThreadsValues, continue : BOOLEAN]
    /\ docsFiles \in DocsInputs
    /\ fileCache = [currentFile |-> "", fileContent |-> <<>>,
                    existingDocSymbols |-> {}]
    /\ activePromises = <<>>
    /\ nextSymbolIndex = 0
    /\ gpc = "fill"
    /\ sent = {}

SpecCli == InitCli /\ [][NextGenerate]_vars

----------------------------------------------------------------------------
(* Claims on stable identity *)

SameIdentityFields(d, e) ==
    /\ hashHeader(getDeclarationHeader(d)) = hashHeader(getDeclarationHeader(e))
    /\ d.kind = e.kind
    /\ declName(d) = declName(e)
    /\ containerChainOf(project, d) = containerChainOf(project, e)

OverloadPair(d, e) ==
    /\ d.kind = "FunctionDeclaration" /\ e.kind = "FunctionDeclaration"
    /\ d.file = e.file /\ d.parent = e.parent /\ d.name = e.name
    /\ NormHeader(d) = normalizeHeaderText(HdrFNumber)
    /\ NormHeader(e) = normalizeHeaderText(HdrFString)

BuiltPairs ==
    { p \in built \X built :
        OverloadPair(p[1].decl, p[2].decl) \/ OverloadPair(p[2].decl, p[1].decl) }

ResolvesToOwnDecl ==
    resolved # None =>
        \A e \in project :
            (OverloadPair(resolved.from, e) \/ OverloadPair(e, resolved.from))
                => resolved.out = resolved.from

-----------------------------------------------------------------------------
\* The names a rename refactoring gives a declaration, with the token the new
\* name contributes to the declaration's header text.
RenameNames == {"h", "k"}

NameToken(n) == IF n = "h" THEN 8 ELSE 9

\* The snapshot after s was renamed to n: the name and the name-bearing part
\* of the header of s change, every other declaration keeps its text.
Renamed(P, s, n) ==
    (P \ {s}) \cup {[s EXCEPT !.name = n,
                              !.header = <<NameToken(n)>> \o Tail(s.header)]}

RECURSIVE IsAncestor(_, _, _)
IsAncestor(P, s, d) ==
    IF d.parent = 0 THEN FALSE
    ELSE LET c == ParentOf(P, d) IN c = s \/ IsAncestor(P, s, c)

\* s is a named declaration of D's file that is unrelated to D: it is neither
\* D nor a container of D and its name differs from D's.
UnrelatedSibling(P, s, d) ==
    /\ s # d
    /\ s.file = d.file
    /\ s.kind \notin {"Constructor", "CallSignature", "ConstructSignature"}
    /\ declName(s) # declName(d)
    /\ ~IsAncestor(P, s, d)

\* C11: renaming a declaration of D's file that is unrelated to D (its name
\* differs from D's before and after the rename) leaves every field of
\* buildStableId(D) unchanged.
C11_RenameUnrelated ==
    \A b \in built : \A s \in project : \A n \in RenameNames :
        (UnrelatedSibling(project, s, b.decl) /\ n # declName(b.decl))
            => buildStableId(Renamed(project, s, n), b.decl) = b.id

\* C11 witness: the id of a function was built while its file holds another
\* function of a different name next to it.
C11_Witness ==
    \E b \in built : \E s \in project :
        /\ UnrelatedSibling(project, s, b.decl)
        /\ s.parent = b.decl.parent
        /\ s.kind = "FunctionDeclaration"
        /\ b.decl.kind = "FunctionDeclaration"

\* C12: for a declaration D with same-named siblings in its container the
\* overloadIndex of buildStableId(D) is D's own position among those siblings
\* sorted by normalized header, so two distinct siblings never get the same
\* overloadIndex; without such a sibling it is 0.
C12_OwnPosition ==
    \A b \in built :
        LET sibs == Siblings(project, b.decl) IN
        IF b.decl.kind \in OverloadKinds /\ Cardinality(sibs) > 1
        THEN /\ b.id.overloadIndex + 1 <= Cardinality(sibs)
             /\ SortByHeader(sibs)[b.id.overloadIndex + 1] = b.decl
             /\ \A c \in built :
                   (c.decl \in sibs /\ c.decl # b.decl)
                       => c.id.overloadIndex # b.id.overloadIndex
        ELSE b.id.overloadIndex = 0

\* C13: when the file named in the id yields no candidate, the whole-project
\* scan finds every declaration the in-file search would have accepted: an id
\* built from a declaration still resolves after the declaration's file moved.
C13_SamePredicate ==
    relocated # None =>
        /\ relocated.from.kind \in InFileKinds
        /\ relocated.out # None
        /\ SameIdentityFields(relocated.out, relocated.from)

\* The fields of the data model: everything but the derived content hash.
AllFieldsMatch(a, b) ==
    /\ a.file = b.file /\ a.kind = b.kind /\ a.name = b.name
    /\ a.containerChain = b.containerChain
    /\ a.headerHash = b.headerHash
    /\ a.overloadIndex = b.overloadIndex
    /\ a.exportHints = b.exportHints

IdentityFieldsMatch(a, b) ==
    /\ a.file = b.file /\ a.kind = b.kind /\ a.name = b.name
    /\ a.containerChain = b.containerChain
    /\ a.headerHash = b.headerHash
    /\ a.overloadIndex = b.overloadIndex

BothHashed == eq.a.hash # NoHash /\ eq.b.hash # NoHash

\* C14 as stated: ids with identical fields have identical hashes, and
\* equalStableId returns true if and only if all fields of the two ids match.
C14_Original ==
    (eq # None /\ eq.done) =>
        /\ (AllFieldsMatch(eq.a, eq.b) /\ BothHashed) => eq.a.hash = eq.b.hash
        /\ eq.out <=> AllFieldsMatch(eq.a, eq.b)

\* C14 amended: ids with identical fields have identical hashes, and
\* equalStableId returns true if and only if file, kind, name, containerChain,
\* headerHash and overloadIndex match; exportHints are not compared.
C14_Amended ==
    (eq # None /\ eq.done) =>
        /\ (AllFieldsMatch(eq.a, eq.b) /\ BothHashed) => eq.a.hash = eq.b.hash
        /\ eq.out <=> IdentityFieldsMatch(eq.a, eq.b)

\* C14 witness: two ids of one declaration, one with export hints and one
\* without, were compared and found to be the same identity.
C14_Witness ==
    /\ eq # None /\ eq.done /\ eq.out
    /\ IdentityFieldsMatch(eq.a, eq.b)
    /\ eq.a.exportHints # eq.b.exportHints

(* Claims on the engine instance *)

\* C3 (as stated; does not hold): every call owns its recursion and visited
\* state, so between two calls the instance holds none of it: whenever no
\* call is running, the instance's relatedCallStack field is empty.
C3_CallScoped == pc = "idle" => relatedCallStack = {}

PathsOfRoot(value, root) ==
    SelectSeq(value, LAMBDA p : /\ p.root.moduleFile = root.moduleFile
                                /\ p.root.exportName = root.exportName)

PropsOf(t) == { TypeInfo[t].props[i] : i \in 1..Len(TypeInfo[t].props) }

\* The types one member access or one construction away from those of S.
OneAccess(S) ==
    S \cup { MemberInfo[m].type : m \in UNION { PropsOf(t) : t \in S } }
      \cup ({ TypeInfo[t].construct : t \in S } \ {""})

RECURSIVE ReachableTypes(_)
ReachableTypes(S) == IF OneAccess(S) = S THEN S ELSE ReachableTypes(OneAccess(S))

\* Some value export root is the target or reaches its declaration through
\* member accesses and construction, types told apart by identity.
Reachable(t) ==
    \E i \in 1..Len(valueRoots) :
        LET r == valueRoots[i] IN
        \/ r.decl = t
        \/ \E ty \in ReachableTypes({r.type} \cup ({r.instance} \ {""})) :
               \E m \in PropsOf(ty) : MemberInfo[m].decl = t

\* C10 (as stated; does not hold): pathsTo returns the empty list only for
\* a target no value export root reaches.
C10_Complete ==
    (ret # None /\ ret.api = "pathsTo" /\ Reachable(ret.target)) =>
        ret.value # <<>>

\* C7 (as stated; does not hold): related on fs(): Promise<string> returns
\* no items, and related on fm(): Promise<MyType> returns exactly MyType.
C7_PromiseResults ==
    (ret # None /\ ret.api = "related") =>
        /\ ret.target = "D_fs" => ret.value = <<>>
        /\ ret.target = "D_fm" =>
              ret.value = << [symbol |-> "MyType", decl |-> "D_MyType"] >>

\* C8 (as stated; does not hold): whatever calls came before, related(T)
\* returns what the first related(T) on the instance returned, which is
\* what a new instance returns.
C8_SameAsFresh ==
    (ret # None /\ ret.api = "related") =>
        fresh[ret.target] = [threw |-> ret.threw, value |-> ret.value]

\* C9 (as stated; does not hold): a call the recursion guard aborted leaves
\* nothing behind: its declaration key is not in relatedCallStack after it.
C9_AbortLeavesNoState ==
    (pc = "idle" /\ ret # None /\ ret.threw) =>
        RelInfo[ret.target].key \notin relatedCallStack

-----------------------------------------------------------------------------
(* Claims on ranking *)

IsA(p) == p.steps = ranked.a.steps /\ p.root = ranked.a.root

\* C6 (as stated; does not hold): the path from the entrypoint root is
\* ranked before the path through `_client`, whatever the roots' export
\* names, kinds, file depths and the rank options.
C6_Original == (ranked # None /\ ranked.out # <<>>) => IsA(ranked.out[1])

\* C6 (amended): the path from the entrypoint root is ranked before the
\* path through `_client` whenever the entrypoint root's file is at most 8
\* directories below the package root.
C6_Amended ==
    (ranked # None /\ ranked.out # <<>> /\ ranked.a.root.moduleFile.depth <= 8)
        => IsA(ranked.out[1])

\* The closest ranking within the amended range: the entrypoint path at
\* depth 8 with no bonus but the entrypoint's, against a default-exported
\* preferred class root next to the package root.
C6_Witness ==
    /\ ranked # None
    /\ ranked.out # <<>>
    /\ ranked.a.root.moduleFile.depth = 8
    /\ ranked.out[1].score = 119
    /\ ranked.out[2].score = 117
    /\ IsA(ranked.out[1])

\* C15: pathsToRanked(target, opts) scores with the caller's options: the
\* entrypoint file list, the preferred root names and an explicitly passed
\* targetIsType each enter the scoring with the value the caller supplied.
C15_CallerOptions ==
    (ranked # None /\ ranked.out # <<>>) =>
        LET raw == IF ranked.aFirst THEN <<ranked.a, ranked.b>>
                   ELSE <<ranked.b, ranked.a>>
        IN  ranked.out = rankPaths(raw, ranked.opts)

(* Claims on the export catalog *)

\* The names that are legal binding identifiers: "default" is a reserved
\* word and "export=" holds a character no identifier has.
LegalIdentifiers == {"foo", "ns"}

\* C16: for every record of the catalog, of any import kind, the binding
\* name makeImportStatement writes into the statement is a legal identifier.
C16_LegalBinding ==
    imported # None => imported.stmt.binding \in LegalIdentifiers

\* The symbol a record of the catalog was made from.
SymbolOfRecord(r) ==
    LET mod == CHOOSE x \in {modules[i] : i \in 1..Len(modules)} : x.file = r.moduleFile
    IN  mod.exports[r.exportName]

StandardRecords ==
    { r \in {catalog.allRoots[i] : i \in 1..Len(catalog.allRoots)} :
        r.importKind # "exportEquals" }

\* C19 as stated: a record is of kind default iff its name is "default", of
\* kind namespace iff it is declared by `export * as ns from`, and of kind
\* named otherwise.
C19_Original ==
    catalog # None =>
        \A r \in StandardRecords :
            /\ r.importKind = "default" <=> r.exportName = "default"
            /\ r.importKind = "namespace"
                  <=> SymbolOfRecord(r).decl = "NamespaceExport"
            /\ r.importKind = "named"
                  <=> (r.exportName # "default"
                       /\ SymbolOfRecord(r).decl # "NamespaceExport")

\* C19 amended: kind default iff the name is "default"; kind namespace iff
\* the record is declared by `export * as ns from` under a name other than
\* "default"; kind named otherwise.
C19_Amended ==
    catalog # None =>
        \A r \in StandardRecords :
            /\ r.importKind = "default" <=> r.exportName = "default"
            /\ r.importKind = "namespace"
                  <=> (r.exportName # "default"
                       /\ SymbolOfRecord(r).decl = "NamespaceExport")
            /\ r.importKind = "named"
                  <=> (r.exportName # "default"
                       /\ SymbolOfRecord(r).decl # "NamespaceExport")

\* C19 witness: the catalog of a module with `export * as default from` and
\* `export * as ns from` next to a plain export.
C19_Witness ==
    /\ catalog # None
    /\ modules[1].exports["default"].decl = "NamespaceExport"
    /\ modules[1].exports["ns"].decl = "NamespaceExport"
    /\ modules[1].exports["foo"].decl = "FunctionDeclaration"
    /\ Len(catalog.allRoots) >= 3

\* C20: no two records of the catalog have the same module file, exported
\* name, import kind and type-only flag.
C20_NoDuplicates ==
    catalog # None =>
        \A i, j \in 1..Len(catalog.allRoots) :
            i # j =>
                <<catalog.allRoots[i].moduleFile, catalog.allRoots[i].exportName,
                  catalog.allRoots[i].importKind, catalog.allRoots[i].isTypeOnly>>
                # <<catalog.allRoots[j].moduleFile, catalog.allRoots[j].exportName,
                    catalog.allRoots[j].importKind, catalog.allRoots[j].isTypeOnly>>

\* C20 witness: the catalog of a program whose index.ts holds two `export =`
\* statements and whose two modules both export `foo`.
C20_Witness ==
    /\ catalog # None
    /\ modules[1].exportEquals = 2
    /\ modules[1].exports["foo"] # NoSymbol
    /\ modules[2].exports["foo"] # NoSymbol
    /\ Len(catalog.allRoots) >= 3

(* Claims on the generate command *)

InFlight ==
    { i \in 1..Len(activePromises) : activePromises[i].state = "pending" }

\* C17: while a workspace is processed, the number of symbol tasks in
\* flight never exceeds the threads value (1 when the option is unset or 0),
\* whatever the order in which the tasks complete.
C17_BoundedTasks ==
    gpc # "off" =>
        /\ Cardinality(InFlight) <= (IF options.threads = 0 THEN 1
                                     ELSE options.threads)
        /\ Len(activePromises) <= (IF options.threads = 0 THEN 1
                                   ELSE options.threads)

\* C17 witness: with two threads, two tasks are in flight after an earlier
\* task has completed and was replaced.
C17_Witness ==
    /\ gpc = "race"
    /\ options.threads = 2
    /\ Cardinality(InFlight) = 2
    /\ nextSymbolIndex >= 3

\* The symbols whose id hash the docs file of their source file held when
\* the command started.
Documented ==
    { i \in 1..Len(symbolInfos) :
        symbolInfos[i].hash \in docsFiles[symbolInfos[i].file].existing }

C21_SortedByScore ==
    (ranked # None /\ ranked.out # <<>>) =>
        \A i \in 1..(Len(ranked.out) - 1) :
            \/ ranked.out[i].score > ranked.out[i + 1].score
            \/ /\ ranked.out[i].score = ranked.out[i + 1].score
               /\ PrettyLength(ranked.out[i]) <= PrettyLength(ranked.out[i + 1])

\* C21 witness: two paths of equal score came in with the longer one first
\* and were returned with the shorter one first.
C21_Witness ==
    /\ ranked # None /\ Len(ranked.out) = 2
    /\ ranked.out[1].score = ranked.out[2].score
    /\ PrettyLength(ranked.out[1]) < PrettyLength(ranked.out[2])
    /\ ~ranked.aFirst
    /\ ranked.out[1].root = ranked.a.root

\* C22: for a target without a runtime value the member BFS is entered for
\* no root, and every path pathsTo returns has no steps and requiresNew false.
C22_TypeOnlyNoBfs ==
    /\ pc = "bfs" => TargetInfo[call.target].isValue
    /\ (ret # None /\ ret.api = "pathsTo" /\ ~TargetInfo[ret.target].isValue) =>
          \A i \in 1..Len(ret.value) :
              ret.value[i].steps = <<>> /\ ~ret.value[i].requiresNew

\* C22 witness: pathsTo returned the root of a type-only export for a
\* type-only target after all roots, value roots included, were passed.
C22_Witness ==
    /\ ret # None /\ ret.api = "pathsTo"
    /\ ~TargetInfo[ret.target].isValue
    /\ Len(ret.value) >= 1
    /\ ret.value[1].root.isTypeOnly

\* C23: in every path pathsTo returns a call step occurs only as the last
\* step, and no node waiting in the BFS queue has a call step behind it.
C23_CallStepLast ==
    /\ \A i \in 1..Len(queue) : \A k \in 1..Len(queue[i].steps) :
           queue[i].steps[k].kind # "call"
    /\ (ret # None /\ ret.api = "pathsTo") =>
          \A i \in 1..Len(ret.value) : \A k \in 1..(Len(ret.value[i].steps) - 1) :
              ret.value[i].steps[k].kind # "call"

\* C23 witness: pathsTo returned a path of two or more steps that ends in the
\* call of a method reached through a property.
C23_Witness ==
    /\ ret # None /\ ret.api = "pathsTo"
    /\ \E i \in 1..Len(ret.value) :
          LET st == ret.value[i].steps IN
          /\ Len(st) >= 2
          /\ st[Len(st)].kind = "call"
          /\ st[1].kind # "call"

\* The deepest nesting of visit() calls in the walk of expression e.
RECURSIVE NestingDepth(_)
NestingDepth(e) ==
    LET RECURSIVE deepest(_, _, _)
        deepest(nodes, lo, hi) ==
            IF lo > hi THEN 0
            ELSE IF lo = hi THEN NestingDepth(nodes[lo])
            ELSE LET mid == (lo + hi) \div 2
                     a   == deepest(nodes, lo, mid)
                     b   == deepest(nodes, mid + 1, hi)
                 IN IF a >= b THEN a ELSE b
    IN 1 + deepest(e.sub, 1, Len(e.sub))

\* C24 (as stated; does not hold): related() fails with the recursion error
\* only for an initializer whose walk nests deeper than MAX_RECURSION_DEPTH.
C24_ThrowsOnlyWhenNested ==
    (ret # None /\ ret.api = "related" /\ ret.threw) =>
        /\ RelInfo[ret.target].initializer # None
        /\ NestingDepth(RelInfo[ret.target].initializer) > MAX_RECURSION_DEPTH

\* The symbols add() keeps: project-local, named, not a global or primitive.
ProjectLocal(s) ==
    /\ inThisPackage(s) /\ ~SymInfo[s].anonymous
    /\ SymInfo[s].typeAlias \/ ~SymInfo[s].global

\* C25 (as stated; does not hold): related(C) of a class C holds every
\* project-local type named in a parameter annotation of a public method of C.
C25_MethodParamsRelated ==
    (ret # None /\ ret.api = "related" /\ ~ret.threw
       /\ RelInfo[ret.target].kind = "Class") =>
        \A i \in 1..Len(ClassInfo[ret.target]) :
            LET mem == ClassInfo[ret.target][i] IN
            (mem.kind = "Method" /\ isPublicClassElement(mem)) =>
                \A k \in 1..Len(mem.parameters) :
                    LET syms == symbolsFromTypeNodeDeep(mem.parameters[k]) IN
                    \A j \in 1..Len(syms) :
                        ProjectLocal(syms[j]) =>
                            \E r \in 1..Len(ret.value) :
                                ret.value[r].symbol = syms[j]

\* Whether the file at path abs lies in directory dir or below it.
InsideDir(abs, dir) == startsWith(abs, dir \o <<"/">>)

\* C27 (as stated; does not hold): every item related() returns is declared
\* in a file inside the project directory and under no node_modules.
C27_RelatedInsideProject ==
    (ret # None /\ ret.api = "related") =>
        \A i \in 1..Len(ret.value) :
            LET abs == SymInfo[ret.value[i].symbol].file IN
            /\ InsideDir(abs, projectDir)
            /\ ~includes(abs, <<"/", "node_modules", "/">>)

(* Claims on the import statement *)

\* Whether directory dir is the directory of file abs or one above it.
Contains(dir, abs) ==
    Len(dir) < Len(abs) /\ SubSeq(abs, 1, Len(dir)) = dir

\* The candidate roots that contain the file.
ApplicableRoots(abs, rootDirAbs) ==
    { r \in ({rootDirAbs} \ {<<>>}) \cup {srcAbs, pkgRootAbs} : Contains(r, abs) }

\* C26 (as stated; does not hold): the module path is taken relative to the
\* deepest of rootDir, <packageRoot>/src and the package root that contain
\* the module file.
C26_DeepestRoot ==
    (imported # None /\ imported.spec # <<>>) =>
        LET roots == ApplicableRoots(imported.fromAbs, imported.rootDirAbs) IN
        roots # {} =>
            /\ imported.cutBase \in roots
            /\ \A r \in roots : Len(r) <= Len(imported.cutBase)

(* Claims on the generate command, continued *)

\* C28: every call of indexer.processSymbol that is in flight was given the
\* text of the source file named in its symbol's id.
C28_OwnFileContent ==
    \A i \in 1..Len(activePromises) :
        activePromises[i].state = "pending" =>
            activePromises[i].content =
                FileText[symbolInfos[activePromises[i].sym].file]

\* C28 witness: calls for symbols of both source files are in flight at
\* once, the one of the file loaded earlier started first.
C28_Witness ==
    \E i, j \in 1..Len(activePromises) :
        /\ i < j
        /\ activePromises[i].state = "pending"
        /\ activePromises[j].state = "pending"
        /\ symbolInfos[activePromises[i].sym].file = "a.ts"
        /\ symbolInfos[activePromises[j].sym].file = "b.ts"
        /\ fileCache.currentFile = "b.ts"

\* C29 (as stated; does not hold): when the summary phase starts every
\* symbol of the workspace has been handed to processSymbolAsync, once each
\* in list order, and no task is left.
C29_AllHandedBeforeSummaries ==
    gpc = "done" =>
        /\ nextSymbolIndex = Len(symbolInfos)
        /\ activePromises = <<>>

(* Claims on stable ids, continued *)

\* C30 (as stated; does not hold): two distinct declarations of one project
\* never get the same id hash, and resolveStableId of a built id returns the
\* declaration the id was built from.
C30_Injective ==
    /\ \A b \in built : \A c \in built :
          b.decl # c.decl => b.id.hash # c.id.hash
    /\ resolved # None => resolved.out = resolved.from

====
